---- MODULE Spec2Model ----
(***************************************************************************)
(* Model of the data-access core of AltSoyuz/adequate: the transactional,  *)
(* versioned schema-migration engine (lib/db/migrate.go), the process     *)
(* startup that runs it (internal/store Init, cmd/main.go, lib/logger) and *)
(* the instrumented driver (lib/db/tracer.go), with the version endpoint   *)
(* (internal/migration), the graceful shutdown of lib/httpserver and the   *)
(* flag parsing of lib/envflag around them.                                *)
(*                                                                         *)
(* A file name is a sequence of one-character strings, so that the name    *)
(* parsing of the engine (strings.SplitN, strconv.Atoi, the directory      *)
(* order of fs.ReadDir) is computed character by character.                *)
(***************************************************************************)
EXTENDS Integers, Sequences, FiniteSets, TLC

\* ------------------------------------------------------------------ bounds
\* Largest number of entries of one migrations directory.
MaxEntries == 3

\* ------------------------------------------------------------ name parsing
Digits == {"0", "1", "2", "3", "4", "5", "6", "7", "8", "9"}

\* Byte value of the characters file names are built from (ASCII).
Code(c) ==
    CASE c = "+" -> 43
      [] c = "-" -> 45
      [] c = "." -> 46
      [] c \in Digits -> 48 + (CHOOSE d \in 0..9 : <<"0","1","2","3","4","5","6","7","8","9">>[d + 1] = c)
      [] c = "_" -> 95
      [] c = "a" -> 97
      [] c = "b" -> 98
      [] c = "d" -> 100
      [] OTHER -> 117

\* Go string comparison a < b: bytewise lexicographic.
RECURSIVE StrLess(_, _)
StrLess(a, b) ==
    IF b = <<>> THEN FALSE
    ELSE IF a = <<>> THEN TRUE
    ELSE IF Code(Head(a)) # Code(Head(b)) THEN Code(Head(a)) < Code(Head(b))
    ELSE StrLess(Tail(a), Tail(b))

\* Fault variant: no name counts as hidden.
HasDotPrefixNever(name) == FALSE

\* strings.HasPrefix(name, ".")
HasDotPrefix(name) == Len(name) > 0 /\ name[1] = "."

\* strings.SplitN(name, "_", 2)[0]: the text before the first "_", or the
\* whole name when it holds no "_".
RECURSIVE SplitHead(_)
SplitHead(name) ==
    IF name = <<>> \/ Head(name) = "_" THEN <<>>
    ELSE <<Head(name)>> \o SplitHead(Tail(name))

\* strconv.Atoi: an optional sign, then one or more decimal digits.
AtoiBody(s) == IF s # <<>> /\ s[1] \in {"+", "-"} THEN Tail(s) ELSE s

AtoiOk(s) == AtoiBody(s) # <<>> /\ \A k \in 1..Len(AtoiBody(s)) : AtoiBody(s)[k] \in Digits

RECURSIVE DigitsVal(_, _)
DigitsVal(s, acc) ==
    IF s = <<>> THEN acc
    ELSE DigitsVal(Tail(s), 10 * acc + (Code(Head(s)) - 48))

AtoiVal(s) ==
    IF s # <<>> /\ s[1] = "-" THEN 0 - DigitsVal(AtoiBody(s), 0)
    ELSE DigitsVal(AtoiBody(s), 0)

\* --------------------------------------------------- the migration artifacts
\* kind: "dir" a sub-directory, "file" a readable file, "unreadable" a file
\* whose Open or ReadAll fails.  body: what executing the file's SQL does:
\* "ok" it succeeds, "fails" it returns an error, at once or after a first
\* statement already changed the schema.
Art(n, k, b) == [name |-> n, kind |-> k, body |-> b]

Artifacts ==
    { Art(<<"1", "_", "a">>, "file", "ok"),
      Art(<<"0", "1", "_", "b">>, "file", "ok"),
      Art(<<"2", "_", "a">>, "file", "ok"),
      Art(<<"2", "_", "b">>, "file", "fails"),
      Art(<<"3", "_", "a">>, "file", "ok"),
      Art(<<"1", "0", "_", "a">>, "file", "ok"),
      Art(<<"2">>, "file", "ok"),
      Art(<<"1", "a", "_", "b">>, "file", "ok"),
      Art(<<"0", "_", "a">>, "file", "ok"),
      Art(<<"0", "_", "u">>, "unreadable", "ok"),
      Art(<<".", "1", "_", "a">>, "file", "ok"),
      Art(<<"1", "_", "d">>, "dir", "ok") }

\* The directories a run may be given: at most MaxEntries entries.
Dirs == { d \in SUBSET Artifacts : Cardinality(d) <= MaxEntries }

\* fs.ReadDir: the entries of the directory, sorted by file name.
RECURSIVE ReadDir(_)
ReadDir(d) ==
    IF d = {} THEN <<>>
    ELSE LET first == CHOOSE e \in d : \A o \in d \ {e} : StrLess(e.name, o.name)
         IN  <<first>> \o ReadDir(d \ {first})

\* ---------------------------------------------------------------- discovery
NoErr == [kind |-> "none"]

\* Fault variant: the seen-map test is missing.
IsDuplicateNever(seen, v) == FALSE

\* if prev, ok := seen[v]; ok: an earlier entry already has version v.
IsDuplicate(seen, v) == \E p \in seen : p.v = v

\* The loop over the directory entries: ms the units collected so far, seen
\* the map version -> name.  The result is the error returned, or the units.
RECURSIVE DiscoverLoop(_, _, _)
DiscoverLoop(entries, ms, seen) ==
    IF entries = <<>> THEN [err |-> NoErr, ms |-> ms]
    ELSE LET e == Head(entries)
             v == AtoiVal(SplitHead(e.name))
         IN  IF e.kind = "dir" THEN DiscoverLoop(Tail(entries), ms, seen)
             ELSE IF HasDotPrefix(e.name) THEN DiscoverLoop(Tail(entries), ms, seen)
             ELSE IF ~AtoiOk(SplitHead(e.name))
                  THEN [err |-> [kind |-> "badname", name |-> e.name], ms |-> <<>>]
             ELSE IF IsDuplicate(seen, v)
                  THEN [err |-> [kind |-> "duplicate", v |-> v,
                                 prev |-> (CHOOSE p \in seen : p.v = v).name,
                                 name |-> e.name], ms |-> <<>>]
             ELSE IF e.kind = "unreadable"
                  THEN [err |-> [kind |-> "read", name |-> e.name], ms |-> <<>>]
             ELSE DiscoverLoop(Tail(entries),
                               Append(ms, [v |-> v, name |-> e.name, sql |-> e.body]),
                               seen \cup {[v |-> v, name |-> e.name]})

\* Fault variant: the units stay in directory order.
SortNone(ms) == ms

\* sort.Slice(ms, by v ascending); the versions of ms are distinct.
RECURSIVE SortByVersion(_)
SortByVersion(ms) ==
    IF ms = <<>> THEN <<>>
    ELSE LET k == CHOOSE k \in 1..Len(ms) : \A j \in 1..Len(ms) : ms[k].v <= ms[j].v
         IN  <<ms[k]>> \o SortByVersion(SubSeq(ms, 1, k - 1) \o SubSeq(ms, k + 1, Len(ms)))

Discover(d) == DiscoverLoop(ReadDir(d), <<>>, {})

\* ------------------------------------------------- the instrumented driver
\* Largest number of slow successful operations on one traced connection.
MaxCalls == 4

\* Tracer.SlowThresh and the measured durations, in one unit of time; the
\* threshold is negative, zero or positive, and a duration is below, at or
\* above the positive threshold.
Thresholds == {-1, 0, 2}

Durations == {1, 2, 3}

\* Tracer.SampleEvery
SampleRates == {-1, 0, 1, 2, 3}

\* type Tracer struct
Tracers == [SlowThresh : Thresholds, MaskArgs : BOOLEAN, SampleEvery : SampleRates]

\* A nil *Tracer: tracedConn.t == nil.
NilTracer == [nil |-> TRUE]

\* The Tracer store.Init registers: 50 ms (two units), masked, every event.
StoreTracer == [SlowThresh |-> 2, MaskArgs |-> TRUE, SampleEvery |-> 1]

\* The optional interfaces of database/sql/driver the base connection has.
Capabilities == {"ExecerContext", "QueryerContext", "ConnBeginTx"}

\* Query texts, character by character, and argument lists.
Queries ==
    { <<"a", " ", "b">>,
      <<"\n", "a", "\t", "\n", " ", "b", " ">> }

ArgLists == { <<"s1">>, <<"s2">> }

\* What the base connection returns: a result (or nil) and an error (or nil).
BaseErrors == {"nil", "e1", "e2"}

BaseOutcomes ==
    { [res |-> "r1", err |-> "nil"], [res |-> "nil", err |-> "nil"],
      [res |-> "nil", err |-> "e1"], [res |-> "nil", err |-> "e2"] }

\* The base connections: one with every optional interface (go-sqlite3),
\* one with ExecerContext and QueryerContext only (the fakeConn of the
\* tests), one with none.
BaseConns == { Capabilities, {"ExecerContext", "QueryerContext"}, {} }

\* driver.ErrSkip
ErrSkip == "ErrSkip"

\* unicode.IsSpace for the characters of Queries
IsSpace(c) == c \in {" ", "\n", "\t"}

\* strings.ReplaceAll(s, "\n", " ")
ReplaceNewlines(s) == [k \in 1..Len(s) |-> IF s[k] = "\n" THEN " " ELSE s[k]]

\* strings.Fields: the maximal runs of non-space characters; tok is the run
\* being read.
RECURSIVE Fields(_, _)
Fields(s, tok) ==
    IF s = <<>> THEN (IF tok = <<>> THEN <<>> ELSE <<tok>>)
    ELSE IF IsSpace(Head(s))
         THEN (IF tok = <<>> THEN Fields(Tail(s), <<>>)
               ELSE <<tok>> \o Fields(Tail(s), <<>>))
    ELSE Fields(Tail(s), Append(tok, Head(s)))

\* strings.Join(toks, " ")
RECURSIVE Join(_)
Join(toks) ==
    IF toks = <<>> THEN <<>>
    ELSE IF Len(toks) = 1 THEN toks[1]
    ELSE toks[1] \o <<" ">> \o Join(Tail(toks))

\* Fault variant: only the newlines are replaced.
compactNewlines(s) == ReplaceNewlines(s)

\* compact: the fields of s joined by single spaces.
compact(s) == Join(Fields(ReplaceNewlines(s), <<>>))

\* Fault variant: the argument list is always passed on.
maskArgsRaw(args, mask) == [list |-> args]

\* maskArgs returns an any: the string "[masked]" or the argument list.
maskArgs(args, mask) == IF mask THEN [str |-> "[masked]"] ELSE [list |-> args]

\* Fault variant: the counter is tested before it is advanced.
sampledBefore(t, cn) ==
    IF t.SampleEvery <= 1 THEN [ok |-> TRUE, n |-> cn]
    ELSE [ok |-> cn % t.SampleEvery = 0, n |-> cn + 1]

\* tracedConn.sampled with counter cn: the answer and the counter after it.
sampled(t, cn) ==
    IF t.SampleEvery <= 1 THEN [ok |-> TRUE, n |-> cn]
    ELSE [ok |-> (cn + 1) % t.SampleEvery = 0, n |-> cn + 1]

\* Fault variant: a duration equal to the threshold is not slow.
IsSlowAbove(t, dur) == ~(t.SlowThresh <= 0 \/ dur <= t.SlowThresh)

\* The negation of log's test c.t.SlowThresh <= 0 || dur < c.t.SlowThresh.
IsSlow(t, dur) == ~(t.SlowThresh <= 0 \/ dur < t.SlowThresh)

\* Fault variant: the error text is left out of the record.
ErrorEventNoText(kind, sqlq, args, dur, e) ==
    [level |-> "ERROR", msg |-> "db.query.error", kind |-> kind, sql |-> sqlq,
     args |-> args, dur |-> dur]

\* The record of logger.ErrorSkipframes(2, "db.query.error", ...).
ErrorEvent(kind, sqlq, args, dur, e) ==
    [level |-> "ERROR", msg |-> "db.query.error", kind |-> kind, sql |-> sqlq,
     args |-> args, dur |-> dur, err |-> e]

\* Fault variant: the slow-query record carries the arguments.
SlowEventWithArgs(kind, sqlq, args, dur) ==
    [level |-> "WARN", msg |-> "db.query.slow", kind |-> kind, sql |-> sqlq,
     dur |-> dur, args |-> args]

\* The record of logger.WarnSkipframes(2, "db.query.slow", ...); log's args
\* is in scope and not passed.
SlowEvent(kind, sqlq, args, dur) ==
    [level |-> "WARN", msg |-> "db.query.slow", kind |-> kind, sql |-> sqlq,
     dur |-> dur]

\* Fault variant: the sampling check is made first, for every operation.
logSamplesFirst(t, cn, kind, sqlq, args, dur, e) ==
    IF t = NilTracer THEN [events |-> <<>>, n |-> cn]
    ELSE LET s == sampled(t, cn)
         IN  IF e # "nil"
             THEN [events |-> << ErrorEvent(kind, compact(sqlq), maskArgs(args, t.MaskArgs), dur, e) >>,
                   n |-> s.n]
             ELSE IF ~IsSlow(t, dur) \/ ~s.ok THEN [events |-> <<>>, n |-> s.n]
             ELSE [events |-> << SlowEvent(kind, compact(sqlq), args, dur) >>, n |-> s.n]

\* tracedConn.log on a connection with tracer t and counter cn: the records
\* handed to the logger and the counter afterwards.
log(t, cn, kind, sqlq, args, dur, e) ==
    IF t = NilTracer THEN [events |-> <<>>, n |-> cn]
    ELSE IF e # "nil"
         THEN [events |-> << ErrorEvent(kind, compact(sqlq), maskArgs(args, t.MaskArgs), dur, e) >>,
               n |-> cn]
    ELSE IF ~IsSlow(t, dur) THEN [events |-> <<>>, n |-> cn]
    ELSE LET s == sampled(t, cn)
         IN  IF ~s.ok THEN [events |-> <<>>, n |-> s.n]
             ELSE [events |-> << SlowEvent(kind, compact(sqlq), args, dur) >>, n |-> s.n]

\* Fault variant: a base error is wrapped on the way out.
ReturnedWrapped(r, e) == [res |-> r, err |-> IF e = "nil" THEN "nil" ELSE "wrapped"]

\* return res, err
Returned(r, e) == [res |-> r, err |-> e]

\* -------------------------------------------------------------------- state
VARIABLES
    db,        \* the committed datastore: what any other connection reads
    tx,        \* the working copy of the open transaction
    txOpen,    \* a transaction begun by Migrate is neither committed nor rolled back
    pc,        \* Migrate's position
    dir,       \* the migrations directory of the current run
    ms,        \* Migrate's ms: the discovered units, sorted
    cur,       \* Migrate's cur
    i,         \* index into ms of the unit the apply loop is at
    applied,   \* Migrate's applied
    err,       \* the error the run returned
    ctxDone,   \* the caller's context is cancelled
    events,    \* history: the statements the run sent for its units, in order
    pre,       \* history: the committed datastore when the run started
    seen,      \* history: what a concurrent reader observed during the run
    again,     \* history: the run before this one had the same directory and returned nil
    spc,       \* position of main / store.Init ("harness": Migrate is called directly)
    level,     \* the -logger.level flag
    sqlDb,     \* the *sql.DB handle: "nil", "open" or "closed"
    failed     \* history: the store initialization steps that failed

VARIABLES
    tr,        \* tracedConn.t: the shared Tracer, or NilTracer
    caps,      \* the optional interfaces the base connection implements
    n,         \* tracedConn.n
    K,         \* history: successful operations at or above a positive threshold
    slow,      \* history: slow-query records handed to the logger
    last       \* history: the last operation on the traced connection

tracerVars == <<tr, caps, n, K, slow, last>>

VARIABLES
    drv,       \* tracedDriver.t of the registered driver
    conns,     \* the connections opened through the driver, by slot
    opened     \* history: the last Open on the driver

driverVars == <<drv, conns, opened>>

VARIABLES
    resp,      \* the response to the last request to /api/migrations/version
               \* (cause is history: the error of its ledger read)
    logs       \* the records the last request handed to the logger

httpVars == <<resp, logs>>

VARIABLES
    lnOpen,      \* the listener accepts connections
    gor,         \* the goroutine of serveWithShutdown: "serve" (in srv.Serve), or
                 \* what srv.Serve returned: "closed" (http.ErrServerClosed) or an error
    errCh,       \* the channel errCh: "empty", "closed" or the error buffered in it
    mpc,         \* position of serveWithShutdown: "select", "shutdown", "drain", "returned"
    sctx,        \* the serving context is cancelled
    reqs,        \* by request: st its state, at the position of the server when it
                 \* connected, inTime whether it finished before the bound expired
    expired,     \* the 10 s of shutdownCtx have passed
    shutdownErr, \* the error srv.Shutdown returned
    ret,         \* what ServeWithListener returned
    inflight     \* history: the requests being handled when the context was cancelled

serveVars == <<lnOpen, gor, errCh, mpc, sctx, reqs, expired, shutdownErr, ret, inflight>>

VARIABLES
    flags,     \* the current value of every flag of flag.CommandLine
    argv,      \* the command line: by flag, the value given with -name=value, if any
    narg,      \* the command line has arguments left after the flags
    environ,   \* the environment: by variable name, its value, if set
    fpc,       \* position of ParseFlagSetErr and of its caller ParseFlagSet
    fi,        \* index of the flag fs.VisitAll is at
    fret       \* what ParseFlagSetErr returned

flagVars == <<flags, argv, narg, environ, fpc, fi, fret>>

VARIABLES
    written,   \* the lines written to the logger's output, by severity
    sent,      \* history: the severities of the messages handed to the logger
    lpc        \* the process of the logger's caller: "running", "exited", "panicked"

loggerVars == <<written, sent, lpc>>

VARIABLES
    wdb,       \* the committed contents of the datastore WithTx works on
    wtx,       \* the working copy of WithTx's transaction
    wOpen,     \* WithTx's transaction is neither committed nor rolled back
    wpc,       \* position of WithTx
    wctx,      \* the context given to WithTx is cancelled
    cbErr,     \* what the callback fn returned
    wret,      \* what WithTx returned
    whist      \* history: pre the contents when WithTx was called, called and
               \* commit whether fn and tx.Commit were called, began and
               \* commitErr the errors of BeginTx and of tx.Commit, work the
               \* working copy when fn returned

withTxVars == <<wdb, wtx, wOpen, wpc, wctx, cbErr, wret, whist>>

moreVars == <<loggerVars, withTxVars>>

restVars == <<driverVars, httpVars, serveVars, flagVars, moreVars>>

\* No connection: the nil driver.Conn.
NilConn == [nil |-> TRUE]

Slots == {"A", "B"}

\* No Open yet.
NoOpen == [slot |-> "none", base |-> {}, baseErr |-> "nil", conn |-> NilConn, err |-> "nil"]

\* The driver store.Init registers, nothing opened through it.
DriverIdle ==
    /\ drv = StoreTracer
    /\ conns = [c \in Slots |-> NilConn]
    /\ opened = NoOpen

\* No request yet.
NoResp == [status |-> 0, body |-> [none |-> TRUE], cause |-> "nil"]

HttpIdle ==
    /\ resp = NoResp
    /\ logs = <<>>

MaxReqs == 2

Reqs == 1..MaxReqs

NoReq == [st |-> "none", at |-> "none", inTime |-> FALSE]

\* ServeWithListener has just started the serving goroutine.
ServeIdle ==
    /\ lnOpen = TRUE
    /\ gor = "serve"
    /\ errCh = "empty"
    /\ mpc = "select"
    /\ sctx = FALSE
    /\ reqs = [r \in Reqs |-> NoReq]
    /\ expired = FALSE
    /\ shutdownErr = "nil"
    /\ ret = "pending"
    /\ inflight = {}

\* An optional value: absent, or present with value v.
None == [ok |-> FALSE]

Some(v) == [ok |-> TRUE, v |-> v]

\* The flags of the program, character by character and abbreviated:
\* envflag.prefix, http.listenAddr and version (a bool flag).
PrefixFlag == <<"e", ".", "p">>

AddrFlag == <<"h", ".", "a">>

VersionFlag == <<"v">>

FlagNames == {PrefixFlag, AddrFlag, VersionFlag}

\* The default each flag is defined with.
Default(f) ==
    CASE f = PrefixFlag -> <<>>
      [] f = AddrFlag -> <<"8">>
      [] OTHER -> <<"0">>

\* envflag.Parse was called without arguments in an empty environment and
\* returned.
FlagsIdle ==
    /\ flags = [f \in FlagNames |-> Default(f)]
    /\ argv = [f \in FlagNames |-> None]
    /\ narg = FALSE
    /\ environ = << >>
    /\ fpc = "returned"
    /\ fi = 1
    /\ fret = "nil"

\* Nothing logged yet.
LoggerIdle ==
    /\ written = <<>>
    /\ sent = <<>>
    /\ lpc = "running"

NoWithTx ==
    [pre |-> {}, called |-> FALSE, commit |-> FALSE, began |-> "nil",
     commitErr |-> "nil", work |-> {}]

\* WithTx has not been called.
WithTxIdle ==
    /\ wdb = {}
    /\ wtx = {}
    /\ wOpen = FALSE
    /\ wpc = "idle"
    /\ wctx = FALSE
    /\ cbErr = "nil"
    /\ wret = "nil"
    /\ whist = NoWithTx

MoreIdle ==
    /\ LoggerIdle
    /\ WithTxIdle

RestIdle ==
    /\ DriverIdle
    /\ HttpIdle
    /\ ServeIdle
    /\ FlagsIdle
    /\ MoreIdle

\* No operation yet.
NoCall ==
    [op |-> "none", q |-> <<>>, args |-> <<>>, dur |-> 0, called |-> FALSE,
     baseRes |-> "nil", baseErr |-> "nil", res |-> "nil", err |-> "nil",
     events |-> <<>>, n0 |-> 0]

\* The connection the store opens: go-sqlite3 behind StoreTracer.
TracerIdle ==
    /\ tr = StoreTracer
    /\ caps = Capabilities
    /\ n = 0
    /\ K = 0
    /\ slow = 0
    /\ last = NoCall

vars == <<db, tx, txOpen, pc, dir, ms, cur, i, applied, err, ctxDone, events,
          pre, seen, again, spc, level, sqlDb, failed,
          tr, caps, n, K, slow, last, drv, conns, opened, resp, logs,
          lnOpen, gor, errCh, mpc, sctx, reqs, expired, shutdownErr, ret, inflight,
          flags, argv, narg, environ, fpc, fi, fret,
          written, sent, lpc, wdb, wtx, wOpen, wpc, wctx, cbErr, wret, whist>>

engineVars == <<db, tx, txOpen, pc, dir, ms, cur, i, applied, err, ctxDone,
                events, pre, seen, again>>

startupVars == <<spc, level, sqlDb, failed>>

exceptDriver == <<engineVars, startupVars, tracerVars, httpVars, serveVars, flagVars, moreVars>>

exceptHttp == <<tracerVars, driverVars, serveVars, flagVars, moreVars>>

exceptServe == <<engineVars, startupVars, tracerVars, driverVars, httpVars, flagVars, moreVars>>

exceptFlags == <<engineVars, startupVars, tracerVars, driverVars, httpVars, serveVars, moreVars>>

exceptLogger == <<engineVars, startupVars, tracerVars, driverVars, httpVars, serveVars, flagVars,
                  withTxVars>>

exceptWithTx == <<engineVars, startupVars, tracerVars, driverVars, httpVars, serveVars, flagVars,
                  loggerVars>>

\* A datastore: tbl the schema_migrations table exists, rows its versions,
\* objs the schema changes made by unit SQL (part: only the first statement
\* of the body took effect).
EmptyDb == [tbl |-> FALSE, rows |-> {}, objs |-> {}]

\* Fault variant: a unit's SQL always stops after its first statement.
EffectPartial(m, partial) == [v |-> m.v, name |-> m.name, part |-> TRUE]

\* The schema change of unit m's SQL, complete or partial.
Effect(m, partial) == [v |-> m.v, name |-> m.name, part |-> partial]

RECURSIVE SetMax(_)
SetMax(S) ==
    LET x == CHOOSE x \in S : TRUE
    IN  IF S = {x} THEN x
        ELSE LET r == SetMax(S \ {x}) IN IF x > r THEN x ELSE r

\* Fault variant: the current version is read as the number of ledger rows.
CurrentVersionCount(rows) == Cardinality(rows)

\* SELECT COALESCE(MAX(version), 0) FROM schema_migrations
CurrentVersion(rows) == IF rows = {} THEN 0 ELSE SetMax(rows)

\* Fault variant: the error path ends the transaction by keeping its changes.
RollbackKeeps(d, t) == t

\* tx.Rollback (the deferred call): the committed datastore after a
\* transaction with working copy t is rolled back over committed state d.
Rollback(d, t) == d

\* Fault variant: the changes of the transaction are dropped at the end.
CommitTxLost(d, t) == d

\* tx.Commit: the committed datastore after the working copy t is committed.
CommitTx(d, t) == t

\* Fault variant: the statement runs on the pool (db.ExecContext) and is
\* committed at once.
ExecAutocommit(d, t) == t

\* A statement run with tx.ExecContext changes the working copy t of the
\* transaction; the committed datastore d stays as it is until Commit.
TxExecCommitted(d, t) == d

\* Fault variant: the ledger insert is missing.
InsertVersionLost(t, m) == t

\* The working copy after the INSERT of m's version into the ledger.
InsertVersion(t, m) == [t EXCEPT !.rows = @ \cup {m.v}]

\* Fault variant: the ledger table is not created.
CreateLedgerSkipped(t) == t

\* The working copy after CREATE TABLE IF NOT EXISTS schema_migrations.
CreateLedger(t) == [t EXCEPT !.tbl = TRUE]

\* Fault variant: statements and Commit do not look at the context.
CtxIgnored(done) == FALSE

\* A call of database/sql that is given a cancelled or expired context
\* (BeginTx, tx.ExecContext, QueryRowContext) or whose transaction was begun
\* with it (tx.Commit) returns the context's error.
CtxErr(done) == done

\* ----------------------------------------------------------- Migrate's steps
EngineInit ==
    /\ db = EmptyDb
    /\ tx = EmptyDb
    /\ txOpen = FALSE
    /\ pc = "idle"
    /\ dir = {}
    /\ ms = <<>>
    /\ cur = 0
    /\ i = 1
    /\ applied = 0
    /\ err = NoErr
    /\ ctxDone = FALSE
    /\ events = <<>>
    /\ pre = EmptyDb
    /\ seen = {}
    /\ again = FALSE

\* Migrate is called with directory d: discovery and sort (lines 24-70).
Start(d) ==
    LET r == Discover(d)
    IN  /\ dir' = d
        /\ again' = (pc = "done" /\ d = dir /\ err = NoErr)
        /\ pre' = db
        /\ events' = <<>>
        /\ seen' = {}
        /\ ctxDone' = FALSE
        /\ applied' = 0
        /\ i' = 1
        /\ cur' = 0
        /\ IF r.err.kind # "none"
           THEN /\ err' = r.err
                /\ ms' = <<>>
                /\ pc' = "done"
           ELSE /\ err' = NoErr
                /\ ms' = SortByVersion(r.ms)
                /\ pc' = "begin"
        /\ UNCHANGED <<db, tx, txOpen>>

\* Fault variant: an error return without the deferred Rollback.
FailLeaks(e, t) ==
    /\ err' = e
    /\ pc' = "done"
    /\ UNCHANGED <<db, tx, txOpen>>

\* A return with an error after BeginTx; the deferred Rollback runs.
Fail(e, t) ==
    /\ err' = e
    /\ pc' = "done"
    /\ txOpen' = FALSE
    /\ db' = Rollback(db, t)
    /\ tx' = db'

BeginTx ==
    /\ pc = "begin"
    /\ IF CtxErr(ctxDone) \/ sqlDb # "open"
       THEN /\ err' = [kind |-> "begin"]
            /\ pc' = "done"
            /\ UNCHANGED <<tx, txOpen>>
       ELSE /\ txOpen' = TRUE
            /\ tx' = db
            /\ pc' = "ensure"
            /\ UNCHANGED err
    /\ UNCHANGED <<db, dir, ms, cur, i, applied, ctxDone, events, pre, seen,
                   again, startupVars, tracerVars, restVars>>

\* CREATE TABLE IF NOT EXISTS schema_migrations
EnsureLedger ==
    /\ pc = "ensure"
    /\ IF CtxErr(ctxDone)
       THEN Fail([kind |-> "create"], tx)
       ELSE /\ tx' = CreateLedger(tx)
            /\ db' = TxExecCommitted(db, tx')
            /\ pc' = "readcur"
            /\ UNCHANGED <<txOpen, err>>
    /\ UNCHANGED <<dir, ms, cur, i, applied, ctxDone, events, pre, seen,
                   again, startupVars, tracerVars, restVars>>

ReadCurrentVersion ==
    /\ pc = "readcur"
    /\ IF CtxErr(ctxDone)
       THEN Fail([kind |-> "current"], tx) /\ UNCHANGED cur
       ELSE /\ cur' = CurrentVersion(tx.rows)
            /\ pc' = "loop"
            /\ UNCHANGED <<db, tx, txOpen, err>>
    /\ UNCHANGED <<dir, ms, i, applied, ctxDone, events, pre, seen,
                   again, startupVars, tracerVars, restVars>>

\* Fault variant: the loop tests m.v < cur.
SkipsBelow(m, c) == m.v < c

\* Fault variant: the loop passes over the maximum recorded version only.
SkipsEqual(m, c) == m.v = c

\* The loop's test m.v <= cur: the unit is passed over.
Skips(m, c) == m.v <= c

SkipUnit ==
    /\ pc = "loop"
    /\ i <= Len(ms)
    /\ Skips(ms[i], cur)
    /\ i' = i + 1
    /\ UNCHANGED <<db, tx, txOpen, pc, dir, ms, cur, applied, err, ctxDone,
                   events, pre, seen, again, startupVars, tracerVars, restVars>>

\* tx.ExecContext(ctx, m.sql)
ExecUnit ==
    /\ pc = "loop"
    /\ i <= Len(ms)
    /\ ~Skips(ms[i], cur)
    /\ LET m == ms[i]
           e == [kind |-> "exec", v |-> m.v, name |-> m.name]
       IN  IF CtxErr(ctxDone)
           THEN Fail(e, tx) /\ UNCHANGED events
           ELSE /\ events' = Append(events, [op |-> "sql", v |-> m.v, name |-> m.name])
                /\ IF m.sql = "ok"
                   THEN /\ tx' = [tx EXCEPT !.objs = @ \cup {Effect(m, FALSE)}]
                        /\ db' = TxExecCommitted(db, tx')
                        /\ pc' = "record"
                        /\ UNCHANGED <<txOpen, err>>
                   ELSE \/ Fail(e, tx)
                        \/ Fail(e, [tx EXCEPT !.objs = @ \cup {Effect(m, TRUE)}])
    /\ UNCHANGED <<dir, ms, cur, i, applied, ctxDone, pre, seen,
                   again, startupVars, tracerVars, restVars>>

\* INSERT INTO schema_migrations(version) VALUES (m.v); version is the
\* primary key.
InsertRecord ==
    /\ pc = "record"
    /\ LET m == ms[i]
       IN  IF CtxErr(ctxDone) \/ m.v \in tx.rows
           THEN Fail([kind |-> "record", v |-> m.v], tx) /\ UNCHANGED <<events, applied, i>>
           ELSE /\ tx' = InsertVersion(tx, m)
                /\ db' = TxExecCommitted(db, tx')
                /\ events' = Append(events, [op |-> "rec", v |-> m.v, name |-> m.name])
                /\ applied' = applied + 1
                /\ i' = i + 1
                /\ pc' = "loop"
                /\ UNCHANGED <<txOpen, err>>
    /\ UNCHANGED <<dir, ms, cur, ctxDone, pre, seen, again,
                   startupVars, tracerVars, restVars>>

Commit ==
    /\ pc = "loop"
    /\ i > Len(ms)
    /\ IF CtxErr(ctxDone)
       THEN Fail([kind |-> "commit"], tx)
       ELSE /\ db' = CommitTx(db, tx)
            /\ tx' = db'
            /\ txOpen' = FALSE
            /\ pc' = "committed"
            /\ UNCHANGED err
    /\ UNCHANGED <<dir, ms, cur, i, applied, ctxDone, events, pre, seen,
                   again, startupVars, tracerVars, restVars>>

\* After the commit: the "db.migrate.done" log line and return nil.
Return ==
    /\ pc = "committed"
    /\ pc' = "done"
    /\ err' = NoErr
    /\ UNCHANGED <<db, tx, txOpen, dir, ms, cur, i, applied, ctxDone, events,
                   pre, seen, again, startupVars, tracerVars, restVars>>

\* The caller's context is cancelled or its deadline passes during the run.
Cancel ==
    /\ pc \notin {"idle", "done", "committed"}
    /\ ~ctxDone
    /\ ctxDone' = TRUE
    /\ UNCHANGED <<db, tx, txOpen, pc, dir, ms, cur, i, applied, err, events,
                   pre, seen, again, startupVars, tracerVars, restVars>>

\* Another connection reads the datastore while the run is in progress.
Observe ==
    /\ pc \notin {"idle", "done"}
    /\ seen' = {db}
    /\ UNCHANGED <<db, tx, txOpen, pc, dir, ms, cur, i, applied, err, ctxDone,
                   events, pre, again, startupVars, tracerVars, restVars>>

\* Migrate is called directly, on a datastore earlier runs may have
\* migrated, with any directory.
MigrateCall ==
    /\ spc = "harness"
    /\ pc = "idle"
    /\ \E d \in Dirs : Start(d)
    /\ UNCHANGED <<startupVars, tracerVars, restVars>>

\* Migrate is called a second time in sequence with the same directory.
MigrateAgain ==
    /\ spc = "harness"
    /\ pc = "done"
    /\ Start(dir)
    /\ UNCHANGED <<startupVars, tracerVars, restVars>>

\* The caller is done with the run's result; the datastore stays.
Forget ==
    /\ spc = "harness"
    /\ pc = "done"
    /\ pc' = "idle"
    /\ dir' = {}
    /\ ms' = <<>>
    /\ cur' = 0
    /\ i' = 1
    /\ applied' = 0
    /\ err' = NoErr
    /\ ctxDone' = FALSE
    /\ events' = <<>>
    /\ pre' = db
    /\ seen' = {}
    /\ again' = FALSE
    /\ UNCHANGED <<db, tx, txOpen, startupVars, tracerVars, restVars>>

\* ------------------------------------------------------ discovery alone
\* Directories with sub-directories and hidden entries of every sort of
\* name: malformed ("a", ".a"), duplicating the version of a file
\* ("2_d", ".2_a"), unreadable (".u"); beside them plain files that are
\* accepted ("1_a", "2_a"), malformed ("1a_b") and unreadable ("0_u").
DiscoveryArtifacts ==
    { Art(<<"a">>, "dir", "ok"),
      Art(<<"2", "_", "d">>, "dir", "ok"),
      Art(<<".", "a">>, "file", "ok"),
      Art(<<".", "2", "_", "a">>, "file", "ok"),
      Art(<<".", "u">>, "unreadable", "ok"),
      Art(<<"1", "_", "a">>, "file", "ok"),
      Art(<<"2", "_", "a">>, "file", "ok"),
      Art(<<"1", "a", "_", "b">>, "file", "ok"),
      Art(<<"0", "_", "u">>, "unreadable", "ok") }

DiscoveryDirs == { d \in SUBSET DiscoveryArtifacts : Cardinality(d) <= MaxEntries }

\* Migrate is called with one of these directories; the run is followed up
\* to the end of discovery and sort.
DiscoverCall ==
    /\ spc = "discover"
    /\ pc = "idle"
    /\ \E d \in DiscoveryDirs : Start(d)
    /\ UNCHANGED <<startupVars, tracerVars, restVars>>

DiscoverInit ==
    /\ EngineInit
    /\ spc = "discover"
    /\ level = "INFO"
    /\ sqlDb = "open"
    /\ failed = {}
    /\ TracerIdle
    /\ RestIdle

DiscoverNext == DiscoverCall

SpecDiscover == DiscoverInit /\ [][DiscoverNext]_vars

Init ==
    /\ EngineInit
    /\ spc = "harness"
    /\ level = "INFO"
    /\ sqlDb = "open"
    /\ failed = {}
    /\ TracerIdle
    /\ RestIdle

Next ==
    \/ MigrateCall
    \/ MigrateAgain
    \/ Forget
    \/ BeginTx
    \/ EnsureLedger
    \/ ReadCurrentVersion
    \/ SkipUnit
    \/ ExecUnit
    \/ InsertRecord
    \/ Commit
    \/ Return
    \/ Cancel

Spec == Init /\ [][Next]_vars

\* The runs of Spec with a reader on another connection.
ConcurrentNext ==
    \/ MigrateCall
    \/ MigrateAgain
    \/ Forget
    \/ BeginTx
    \/ EnsureLedger
    \/ ReadCurrentVersion
    \/ SkipUnit
    \/ ExecUnit
    \/ InsertRecord
    \/ Commit
    \/ Return
    \/ Cancel
    \/ Observe

SpecConcurrent == Init /\ [][ConcurrentNext]_vars

\* ------------------------------------------------- logger and process startup
Levels == {"INFO", "WARN", "ERROR", "FATAL", "PANIC"}

\* Fault variant: WARN and ERROR drop the messages of their own severity too.
skipOwnLevel(lv, msgLevel) ==
    CASE lv = "INFO" -> FALSE
      [] lv = "WARN" -> msgLevel \in {"INFO", "WARN"}
      [] lv = "ERROR" -> msgLevel \in {"INFO", "WARN", "ERROR"}
      [] lv = "FATAL" -> msgLevel \notin {"FATAL", "PANIC"}
      [] lv = "PANIC" -> msgLevel # "PANIC"
      [] OTHER -> FALSE

\* logger.skip: a message of severity msgLevel is dropped under -logger.level lv.
skip(lv, msgLevel) ==
    CASE lv = "INFO" -> FALSE
      [] lv = "WARN" -> msgLevel = "INFO"
      [] lv = "ERROR" -> msgLevel \in {"INFO", "WARN"}
      [] lv = "FATAL" -> msgLevel \notin {"FATAL", "PANIC"}
      [] lv = "PANIC" -> msgLevel # "PANIC"
      [] OTHER -> FALSE

\* logger.Fatal -> printLogSkipframes(.., "FATAL", ..): a skipped message
\* returns before the switch that calls os.Exit(1).
FatalExits(lv) == ~skip(lv, "FATAL")

\* //go:embed migrations/*.sql: the embedded collection holds regular,
\* readable files whose names carry the .sql suffix (left out of the model's
\* names), so no name made of digits alone.
EmbeddedDirs ==
    { d \in Dirs : \A e \in d : e.kind = "file" /\ \E k \in 1..Len(e.name) : e.name[k] \notin Digits }

StartupInit ==
    /\ EngineInit
    /\ spc = "mkdir"
    /\ level \in Levels
    /\ sqlDb = "nil"
    /\ failed = {}
    /\ TracerIdle
    /\ RestIdle

\* A step of store.Init failed and logger.Fatal was called: the position
\* after it when Fatal returns is next.
AfterFatal(step, next) ==
    /\ failed' = failed \cup {step}
    /\ spc' = IF FatalExits(level) THEN "exited" ELSE next

\* os.MkdirAll(dir, 0755)
StoreInitMkdir ==
    /\ spc = "mkdir"
    /\ \/ spc' = "open" /\ UNCHANGED failed
       \/ AfterFatal("mkdir", "open")
    /\ UNCHANGED <<restVars, tracerVars, level, sqlDb, engineVars>>

\* sql.Open, then sqlDb.SetMaxOpenConns(1) and SetMaxIdleConns(1); on a nil
\* *sql.DB the setter dereferences nil and the process panics.
StoreInitOpen ==
    /\ spc = "open"
    /\ \/ sqlDb' = "open" /\ spc' = "ping" /\ UNCHANGED failed
       \/ AfterFatal("open", "crashed") /\ UNCHANGED sqlDb
    /\ UNCHANGED <<restVars, tracerVars, level, engineVars>>

\* sqlDb.PingContext(ctx)
StoreInitPing ==
    /\ spc = "ping"
    /\ \/ spc' = "migrate" /\ UNCHANGED <<failed, sqlDb>>
       \/ AfterFatal("ping", "migrate") /\ sqlDb' = "closed"
    /\ UNCHANGED <<restVars, tracerVars, level, engineVars>>

\* err = db.Migrate(ctx, sqlDb, migFS)
StoreInitMigrate ==
    /\ spc = "migrate"
    /\ pc = "idle"
    /\ \E d \in EmbeddedDirs : Start(d)
    /\ spc' = "migrating"
    /\ UNCHANGED <<restVars, tracerVars, level, sqlDb, failed>>

\* Migrate returned: on an error Close and Fatal, else the Store is returned.
StoreInitReturn ==
    /\ spc = "migrating"
    /\ pc = "done"
    /\ IF err # NoErr
       THEN AfterFatal("migrate", "serve") /\ sqlDb' = "closed"
       ELSE spc' = "serve" /\ UNCHANGED <<failed, sqlDb>>
    /\ UNCHANGED <<restVars, tracerVars, level, engineVars>>

\* main: addRoutes(mux, store) and httpserver.Serve: the process listens.
MainServe ==
    /\ spc = "serve"
    /\ spc' = "serving"
    /\ UNCHANGED <<restVars, tracerVars, level, sqlDb, failed, engineVars>>

StartupNext ==
    \/ StoreInitMkdir
    \/ StoreInitOpen
    \/ StoreInitPing
    \/ StoreInitMigrate
    \/ BeginTx
    \/ EnsureLedger
    \/ ReadCurrentVersion
    \/ SkipUnit
    \/ ExecUnit
    \/ InsertRecord
    \/ Commit
    \/ Return
    \/ Cancel
    \/ StoreInitReturn
    \/ MainServe

SpecStartup == StartupInit /\ [][StartupNext]_vars

\* ------------------------------------------------- the version endpoint
\* Errors of the ledger read that do not stem from the datastore's state.
ReadFaults == {"nil", "e1", "e2"}

\* Queries.GetLastMigrationVersion on handle h over committed datastore d,
\* the read meeting fault f: MAX(version) of the ledger, read as the engine
\* reads it, or the error of the failed read.
GetLastMigrationVersion(h, d, f) ==
    IF h # "open" THEN [version |-> 0, err |-> "closed"]
    ELSE IF f # "nil" THEN [version |-> 0, err |-> f]
    ELSE IF ~d.tbl THEN [version |-> 0, err |-> "notable"]
    ELSE [version |-> CurrentVersion(d.rows), err |-> "nil"]

\* http.StatusText
StatusText(status) ==
    CASE status = 500 -> "Internal Server Error"
      [] status = 400 -> "Bad Request"
      [] OTHER -> ""

\* The records that reach the log output under -logger.level lv.
Logged(lv, recs) == SelectSeq(recs, LAMBDA r : ~skip(lv, r.level))

\* Fault variant: the body carries the status text whatever the error.
WriteErrorGeneric(lv, status, e) ==
    [status |-> status,
     body |-> [error |-> StatusText(status)],
     logs |-> IF e # "nil"
              THEN Logged(lv, <<[level |-> "ERROR", msg |-> "http error", err |-> e]>>)
              ELSE <<>>]

\* httpserver.WriteError(w, r, status, err): msg is err.Error() unless err is
\* nil; the response WriteJSON writes and the record handed to logger.Error.
WriteError(lv, status, e) ==
    [status |-> status,
     body |-> [error |-> IF e # "nil" THEN e ELSE StatusText(status)],
     logs |-> IF e # "nil"
              THEN Logged(lv, <<[level |-> "ERROR", msg |-> "http error", err |-> e]>>)
              ELSE <<>>]

\* Fault variant: a failed read is answered like a successful one.
MigrationHandlerAlwaysOk ==
    /\ spc = "serving"
    /\ \E f \in ReadFaults :
           LET r == GetLastMigrationVersion(sqlDb, db, f)
           IN  /\ resp' = [status |-> 200, body |-> [version |-> r.version], cause |-> r.err]
               /\ logs' = <<>>
    /\ UNCHANGED <<engineVars, startupVars, exceptHttp>>

\* The handler addRoutes registers for /api/migrations/version.
MigrationHandler ==
    /\ spc = "serving"
    /\ \E f \in ReadFaults :
           LET r == GetLastMigrationVersion(sqlDb, db, f)
               o == IF r.err # "nil"
                    THEN WriteError(level, 500, r.err)
                    ELSE [status |-> 200,
                          body |-> [version |-> r.version],
                          logs |-> Logged(level, <<[level |-> "INFO",
                                                   msg |-> "migration version fetched",
                                                   version |-> r.version]>>)]
           IN  /\ resp' = [status |-> o.status, body |-> o.body, cause |-> r.err]
               /\ logs' = o.logs
    /\ UNCHANGED <<engineVars, startupVars, exceptHttp>>

\* The process is stopped and a binary with its own embedded migrations is
\* started on the same datastore file, under the same -logger.level.
Restart ==
    /\ spc = "serving"
    /\ spc' = "mkdir"
    /\ sqlDb' = "nil"
    /\ failed' = {}
    /\ pc' = "idle"
    /\ dir' = {}
    /\ ms' = <<>>
    /\ cur' = 0
    /\ i' = 1
    /\ applied' = 0
    /\ err' = NoErr
    /\ ctxDone' = FALSE
    /\ events' = <<>>
    /\ pre' = db
    /\ seen' = {}
    /\ again' = FALSE
    /\ resp' = NoResp
    /\ logs' = <<>>
    /\ UNCHANGED <<db, tx, txOpen, level, exceptHttp>>

ServeNext ==
    \/ StoreInitMkdir
    \/ StoreInitOpen
    \/ StoreInitPing
    \/ StoreInitMigrate
    \/ BeginTx
    \/ EnsureLedger
    \/ ReadCurrentVersion
    \/ SkipUnit
    \/ ExecUnit
    \/ InsertRecord
    \/ Commit
    \/ Return
    \/ Cancel
    \/ StoreInitReturn
    \/ MainServe
    \/ MigrationHandler
    \/ Restart

SpecServe == StartupInit /\ [][ServeNext]_vars

\* ------------------------------------------------- graceful shutdown
\* Errors srv.Serve returns on its own, e.g. when Accept fails because the
\* caller closed the listener.
ServeErrors == {"e1", "e2"}

DeadlineExceeded == "DeadlineExceeded"

\* Fault variant: the server is closed at once and active connections are cut.
ServerClose(rs) ==
    [r \in Reqs |-> IF rs[r].st = "handling" THEN [rs[r] EXCEPT !.st = "aborted"] ELSE rs[r]]

\* srv.Shutdown's effect on the connections when it is called: they are left
\* to finish.
Shutdown(rs) == rs

\* A client connects and its request reaches the handler, or the connection
\* is refused because the listener is closed.
Connect ==
    /\ \E r \in Reqs :
           /\ reqs[r].st = "none"
           /\ reqs' = [reqs EXCEPT ![r] =
                          [st |-> IF lnOpen /\ gor = "serve" THEN "handling" ELSE "refused",
                           at |-> mpc, inTime |-> FALSE]]
    /\ UNCHANGED <<lnOpen, gor, errCh, mpc, sctx, expired, shutdownErr, ret, inflight, exceptServe>>

\* The handler of a request returns and the client receives its response.
HandlerFinish ==
    /\ \E r \in Reqs :
           /\ reqs[r].st = "handling"
           /\ reqs' = [reqs EXCEPT ![r].st = "done", ![r].inTime = ~expired]
    /\ UNCHANGED <<lnOpen, gor, errCh, mpc, sctx, expired, shutdownErr, ret, inflight, exceptServe>>

\* The serving context is cancelled.
CtxCancel ==
    /\ ~sctx
    /\ sctx' = TRUE
    /\ inflight' = { r \in Reqs : reqs[r].st = "handling" }
    /\ UNCHANGED <<lnOpen, gor, errCh, mpc, reqs, expired, shutdownErr, ret, exceptServe>>

\* srv.Serve returns an error other than http.ErrServerClosed: errCh <- err.
ServeFails ==
    /\ gor = "serve"
    /\ mpc = "select"
    /\ \E e \in ServeErrors : errCh' = e /\ gor' = e
    /\ lnOpen' = FALSE
    /\ UNCHANGED <<mpc, sctx, reqs, expired, shutdownErr, ret, inflight, exceptServe>>

\* Fault variant: the goroutine ends without closing errCh.
ServeEndsSilently ==
    /\ gor = "serve"
    /\ mpc # "select"
    /\ gor' = "closed"
    /\ UNCHANGED <<lnOpen, errCh, mpc, sctx, reqs, expired, shutdownErr, ret, inflight, exceptServe>>

\* srv.Serve returns http.ErrServerClosed after Shutdown was called: close(errCh).
ServeClosed ==
    /\ gor = "serve"
    /\ mpc # "select"
    /\ errCh' = "closed"
    /\ gor' = "closed"
    /\ UNCHANGED <<lnOpen, mpc, sctx, reqs, expired, shutdownErr, ret, inflight, exceptServe>>

\* select, case <-ctx.Done(): srv.Shutdown(shutdownCtx) is called with a
\* fresh 10 s bound and closes the listener.
SelectDone ==
    /\ mpc = "select"
    /\ sctx
    /\ mpc' = "shutdown"
    /\ lnOpen' = FALSE
    /\ reqs' = Shutdown(reqs)
    /\ UNCHANGED <<gor, errCh, sctx, expired, shutdownErr, ret, inflight, exceptServe>>

\* select, case err := <-errCh: return err
SelectErr ==
    /\ mpc = "select"
    /\ errCh # "empty"
    /\ mpc' = "returned"
    /\ ret' = IF errCh = "closed" THEN "nil" ELSE errCh
    /\ errCh' = IF errCh = "closed" THEN "closed" ELSE "empty"
    /\ UNCHANGED <<lnOpen, gor, sctx, reqs, expired, shutdownErr, inflight, exceptServe>>

\* The bound of shutdownCtx passes while Shutdown waits.
BoundExpires ==
    /\ mpc = "shutdown"
    /\ ~expired
    /\ expired' = TRUE
    /\ UNCHANGED <<lnOpen, gor, errCh, mpc, sctx, reqs, shutdownErr, ret, inflight, exceptServe>>

\* Shutdown polls the connections and finds none active: it returns nil.
ShutdownIdle ==
    /\ mpc = "shutdown"
    /\ \A r \in Reqs : reqs[r].st # "handling"
    /\ shutdownErr' = "nil"
    /\ mpc' = "drain"
    /\ UNCHANGED <<lnOpen, gor, errCh, sctx, reqs, expired, ret, inflight, exceptServe>>

\* Shutdown is woken by the expiry of its context: it returns ctx.Err().
ShutdownTimeout ==
    /\ mpc = "shutdown"
    /\ expired
    /\ shutdownErr' = DeadlineExceeded
    /\ mpc' = "drain"
    /\ UNCHANGED <<lnOpen, gor, errCh, sctx, reqs, expired, ret, inflight, exceptServe>>

\* err := <-errCh after Shutdown; then the test of shutdownErr.
Drain ==
    /\ mpc = "drain"
    /\ errCh # "empty"
    /\ mpc' = "returned"
    /\ ret' = IF errCh # "closed" THEN errCh
              ELSE IF shutdownErr = DeadlineExceeded THEN DeadlineExceeded
              ELSE "nil"
    /\ errCh' = IF errCh = "closed" THEN "closed" ELSE "empty"
    /\ UNCHANGED <<lnOpen, gor, sctx, reqs, expired, shutdownErr, inflight, exceptServe>>

\* ServeWithListener over a listener of the caller.
ShutdownInit ==
    /\ EngineInit
    /\ spc = "serving"
    /\ level = "INFO"
    /\ sqlDb = "open"
    /\ failed = {}
    /\ TracerIdle
    /\ DriverIdle
    /\ HttpIdle
    /\ ServeIdle
    /\ FlagsIdle
    /\ MoreIdle

ShutdownNext ==
    \/ Connect
    \/ HandlerFinish
    \/ CtxCancel
    \/ ServeFails
    \/ ServeClosed
    \/ SelectDone
    \/ SelectErr
    \/ BoundExpires
    \/ ShutdownIdle
    \/ ShutdownTimeout
    \/ Drain

SpecShutdown == ShutdownInit /\ [][ShutdownNext]_vars

\* The same program under the scheduling the runtime gives: a select with a
\* ready case proceeds, the timer of shutdownCtx fires, Shutdown returns
\* when it finds the connections idle or is woken by the expiry, Serve
\* returns once Shutdown closed the listener and the goroutine runs to its
\* end, and a receive on a channel that is ready proceeds.  Handlers,
\* clients and the cancellation are under no obligation.
SpecShutdownFair ==
    /\ ShutdownInit
    /\ [][ShutdownNext]_vars
    /\ WF_vars(SelectDone \/ SelectErr)
    /\ WF_vars(BoundExpires)
    /\ WF_vars(ShutdownIdle \/ ShutdownTimeout)
    /\ WF_vars(ServeClosed)
    /\ WF_vars(Drain)

\* ------------------------------------------------- flags and environment
\* fs.VisitAll visits the flags in lexical order of their names.
FlagOrder == <<PrefixFlag, AddrFlag, VersionFlag>>

\* Flag.Value.Set: a string flag takes any value, the bool flag what
\* strconv.ParseBool takes.
Accepts(f, v) == f # VersionFlag \/ v \in {<<"0">>, <<"1">>}

\* The values given to the bool flag: one it takes, one it rejects.
BoolTexts == {<<"1">>, <<"x">>}

\* The value a command line gives to a flag, b being the one for the bool flag.
ArgValue(f, b) ==
    CASE f = PrefixFlag -> <<"P">>
      [] f = AddrFlag -> <<"3">>
      [] OTHER -> b

\* The command lines: any set of the flags, each given as -name=value.
CommandLines ==
    { [f \in FlagNames |-> IF f \in S THEN Some(ArgValue(f, b)) ELSE None] :
        S \in SUBSET FlagNames, b \in BoolTexts }

\* strings.ReplaceAll(s, ".", "_")
ReplaceDots(s) == [k \in 1..Len(s) |-> IF s[k] = "." THEN "_" ELSE s[k]]

\* getEnvFlagName with *prefix = p
getEnvFlagName(s, p) == p \o ReplaceDots(s)

\* The variables an environment may set, and the values it gives them.
EnvNames == { getEnvFlagName(f, p) : f \in FlagNames, p \in {<<>>, <<"P">>} }

\* The value an environment gives to a variable, b being the one for the
\* variable of the bool flag under the empty prefix.
EnvValue(name, b) ==
    CASE name = getEnvFlagName(PrefixFlag, <<>>) -> <<"P">>
      [] name = getEnvFlagName(PrefixFlag, <<"P">>) -> <<"Q">>
      [] name = getEnvFlagName(AddrFlag, <<>>) -> <<"1">>
      [] name = getEnvFlagName(AddrFlag, <<"P">>) -> <<"2">>
      [] name = getEnvFlagName(VersionFlag, <<>>) -> b
      [] OTHER -> <<"0">>

\* The environments: any set of the variables.
Environs ==
    { [nm \in EnvNames |-> IF nm \in S THEN Some(EnvValue(nm, b)) ELSE None] :
        S \in SUBSET EnvNames, b \in BoolTexts }

\* os.LookupEnv
LookupEnv(name) == IF name \in DOMAIN environ THEN environ[name] ELSE None

\* Fault variant: the flags given on the command line are not remembered.
flagsSetNone(f) == FALSE

\* flagsSet[f.Name], filled by fs.Visit after fs.Parse
flagsSet(f) == argv[f].ok

\* fs.Parse(args), the test of fs.NArg() and fs.Visit.
FsParse ==
    /\ fpc = "parse"
    /\ IF \E f \in FlagNames : argv[f].ok /\ ~Accepts(f, argv[f].v)
       THEN /\ fret' = "cannot parse flags"
            /\ fpc' = "returned"
            /\ UNCHANGED flags
       ELSE /\ flags' = [f \in FlagNames |-> IF argv[f].ok THEN argv[f].v ELSE flags[f]]
            /\ IF narg
               THEN fret' = "unprocessed argv" /\ fpc' = "returned"
               ELSE fpc' = "visit" /\ UNCHANGED fret
    /\ UNCHANGED <<argv, narg, environ, fi, exceptFlags>>

\* The closure of fs.VisitAll on the next flag. A value the flag rejects
\* makes the closure panic; the recover() after VisitAll is not in a
\* deferred function, so the panic leaves ParseFlagSetErr.
VisitAll ==
    /\ fpc = "visit"
    /\ fi <= Len(FlagOrder)
    /\ LET f == FlagOrder[fi]
           e == LookupEnv(getEnvFlagName(f, flags[PrefixFlag]))
       IN  IF flagsSet(f) \/ ~e.ok
           THEN fi' = fi + 1 /\ UNCHANGED <<flags, fpc>>
           ELSE IF Accepts(f, e.v)
           THEN /\ flags' = [flags EXCEPT ![f] = e.v]
                /\ fi' = fi + 1
                /\ UNCHANGED fpc
           ELSE /\ fpc' = "panicked"
                /\ UNCHANGED <<flags, fi>>
    /\ UNCHANGED <<argv, narg, environ, fret, exceptFlags>>

\* VisitAll returned: recover() yields nil and ParseFlagSetErr returns nil.
VisitReturn ==
    /\ fpc = "visit"
    /\ fi > Len(FlagOrder)
    /\ fret' = "nil"
    /\ fpc' = "returned"
    /\ UNCHANGED <<flags, argv, narg, environ, fi, exceptFlags>>

\* ParseFlagSet: log.Fatalf on an error of ParseFlagSetErr.
Fatalf ==
    /\ fpc = "returned"
    /\ fret # "nil"
    /\ fpc' = "exited"
    /\ UNCHANGED <<flags, argv, narg, environ, fi, fret, exceptFlags>>

\* envflag.Parse() on any command line in any environment.
FlagsInit ==
    /\ EngineInit
    /\ spc = "flags"
    /\ level = "INFO"
    /\ sqlDb = "nil"
    /\ failed = {}
    /\ TracerIdle
    /\ DriverIdle
    /\ HttpIdle
    /\ ServeIdle
    /\ flags = [f \in FlagNames |-> Default(f)]
    /\ argv \in CommandLines
    /\ narg \in BOOLEAN
    /\ environ \in Environs
    /\ fpc = "parse"
    /\ fi = 1
    /\ fret = "pending"
    /\ MoreIdle

FlagsNext ==
    \/ FsParse
    \/ VisitAll
    \/ VisitReturn
    \/ Fatalf

SpecFlags == FlagsInit /\ [][FlagsNext]_vars

\* ------------------------------------------------------------ the logger
MaxLines == 3

\* printLogSkipframes(_, msgLevel, ...): nothing happens to a skipped
\* message; any other is written to the output, and then FATAL exits and
\* PANIC panics.
printLogSkipframes(msgLevel) ==
    /\ spc = "logger"
    /\ lpc = "running"
    /\ Len(sent) < MaxLines
    /\ sent' = Append(sent, msgLevel)
    /\ IF skip(level, msgLevel)
       THEN UNCHANGED <<written, lpc>>
       ELSE /\ written' = Append(written, msgLevel)
            /\ lpc' = CASE msgLevel = "FATAL" -> "exited"
                         [] msgLevel = "PANIC" -> "panicked"
                         [] OTHER -> "running"
    /\ UNCHANGED exceptLogger

Info == printLogSkipframes("INFO")

Warn == printLogSkipframes("WARN")

Error == printLogSkipframes("ERROR")

Fatal == printLogSkipframes("FATAL")

Panic == printLogSkipframes("PANIC")

\* A process with any -logger.level that validateLevel accepts.
LoggerInit ==
    /\ EngineInit
    /\ spc = "logger"
    /\ level \in Levels
    /\ sqlDb = "nil"
    /\ failed = {}
    /\ TracerIdle
    /\ RestIdle

LoggerNext ==
    \/ Info
    \/ Warn
    \/ Error
    \/ Fatal
    \/ Panic

SpecLogger == LoggerInit /\ [][LoggerNext]_vars

\* --------------------------------------------------------- store.WithTx
\* The rows a callback may write, what it may return, and the errors of
\* BeginTx and tx.Commit other than the context's.
WithTxRows == {"x", "y"}

CallbackResults == {"nil", "e1", "e2"}

TxErrors == {"b1"}

CtxError == "ctx"

\* Fault variant: the callback's error does not stop the commit.
CommitsAlways(e) == TRUE

\* if err := fn(ctx, q); err != nil { return err }: tx.Commit is reached
\* when the callback returned nil.
Commits(e) == e = "nil"

\* WithTx is called, with a context that may already be cancelled.
WithTxCall ==
    /\ spc = "withtx"
    /\ wpc = "idle"
    /\ wpc' = "begin"
    /\ wctx' \in BOOLEAN
    /\ whist' = [NoWithTx EXCEPT !.pre = wdb]
    /\ UNCHANGED <<wdb, wtx, wOpen, cbErr, wret, exceptWithTx>>

\* tx, err := db.BeginTx(ctx, nil); if err != nil { return err }
WithTxBegin ==
    /\ wpc = "begin"
    /\ \E e \in (IF wctx THEN {CtxError} ELSE {"nil"} \cup TxErrors) :
           IF e # "nil"
           THEN /\ wret' = e
                /\ wpc' = "returned"
                /\ whist' = [whist EXCEPT !.began = e]
                /\ UNCHANGED <<wtx, wOpen>>
           ELSE /\ wOpen' = TRUE
                /\ wtx' = wdb
                /\ wpc' = "fn"
                /\ whist' = [whist EXCEPT !.called = TRUE]
                /\ UNCHANGED wret
    /\ UNCHANGED <<wdb, wctx, cbErr, exceptWithTx>>

\* The callback writes a row through q, inside the transaction.
FnWrite ==
    /\ wpc = "fn"
    /\ ~wctx
    /\ \E x \in WithTxRows \ wtx : wtx' = wtx \cup {x}
    /\ UNCHANGED <<wdb, wOpen, wpc, wctx, cbErr, wret, whist, exceptWithTx>>

\* The callback returns e.  An error is returned as it is and the deferred
\* tx.Rollback ends the transaction.
FnReturn ==
    /\ wpc = "fn"
    /\ \E e \in CallbackResults :
           /\ cbErr' = e
           /\ whist' = [whist EXCEPT !.work = wtx]
           /\ IF Commits(e)
              THEN /\ wpc' = "commit"
                   /\ UNCHANGED <<wtx, wOpen, wret>>
              ELSE /\ wret' = e
                   /\ wOpen' = FALSE
                   /\ wtx' = wdb
                   /\ wpc' = "returned"
    /\ UNCHANGED <<wdb, wctx, exceptWithTx>>

\* return tx.Commit(): the transaction is ended whether Commit succeeds or
\* not; the deferred Rollback then finds sql.ErrTxDone.
WithTxCommit ==
    /\ wpc = "commit"
    /\ \E e \in (IF wctx THEN {CtxError} ELSE {"nil"} \cup TxErrors) :
           /\ wret' = e
           /\ whist' = [whist EXCEPT !.commit = TRUE, !.commitErr = e]
           /\ wdb' = IF e = "nil" THEN wtx ELSE wdb
    /\ wtx' = wdb'
    /\ wOpen' = FALSE
    /\ wpc' = "returned"
    /\ UNCHANGED <<wctx, cbErr, exceptWithTx>>

\* The context given to WithTx is cancelled while it runs.
WithTxCancel ==
    /\ wpc \in {"begin", "fn", "commit"}
    /\ ~wctx
    /\ wctx' = TRUE
    /\ UNCHANGED <<wdb, wtx, wOpen, wpc, cbErr, wret, whist, exceptWithTx>>

\* The caller is done with the result; the datastore stays.
WithTxForget ==
    /\ wpc = "returned"
    /\ wpc' = "idle"
    /\ wctx' = FALSE
    /\ cbErr' = "nil"
    /\ wret' = "nil"
    /\ whist' = NoWithTx
    /\ UNCHANGED <<wdb, wtx, wOpen, exceptWithTx>>

WithTxInit ==
    /\ EngineInit
    /\ spc = "withtx"
    /\ level = "INFO"
    /\ sqlDb = "open"
    /\ failed = {}
    /\ TracerIdle
    /\ RestIdle

WithTxNext ==
    \/ WithTxCall
    \/ WithTxBegin
    \/ FnWrite
    \/ FnReturn
    \/ WithTxCommit
    \/ WithTxCancel
    \/ WithTxForget

SpecWithTx == WithTxInit /\ [][WithTxNext]_vars

\* ------------------------------------- operations on a traced connection
\* A successful operation that the threshold test counts as slow.
Qualifies(dur, e) ==
    /\ tr # NilTracer
    /\ e = "nil"
    /\ tr.SlowThresh > 0
    /\ dur >= tr.SlowThresh

WarnCount(evs) == Cardinality({ k \in 1..Len(evs) : evs[k].level = "WARN" })

\* ExecContext (kind "exec", cap "ExecerContext") and QueryContext (kind
\* "query", cap "QueryerContext") with query q and arguments args: the base
\* takes dur and returns (r, e).
TracedStmt(kind, cap, q, args, dur, r, e) ==
    IF cap \notin caps
    THEN /\ last' = [op |-> kind, q |-> q, args |-> args, dur |-> 0, called |-> FALSE,
                     baseRes |-> "nil", baseErr |-> "nil", res |-> "nil", err |-> ErrSkip,
                     events |-> <<>>, n0 |-> n]
         /\ UNCHANGED <<n, K, slow>>
    ELSE LET l == log(tr, n, kind, q, args, dur, e)
             out == Returned(r, e)
         IN  /\ Qualifies(dur, e) => K < MaxCalls
             /\ last' = [op |-> kind, q |-> q, args |-> args, dur |-> dur, called |-> TRUE,
                         baseRes |-> r, baseErr |-> e, res |-> out.res, err |-> out.err,
                         events |-> l.events, n0 |-> n]
             /\ n' = l.n
             /\ K' = IF Qualifies(dur, e) THEN K + 1 ELSE K
             /\ slow' = slow + WarnCount(l.events)

TracedExecContext ==
    /\ spc = "tracer"
    /\ \E q \in Queries, args \in ArgLists, dur \in Durations, o \in BaseOutcomes :
           TracedStmt("exec", "ExecerContext", q, args, dur, o.res, o.err)
    /\ UNCHANGED <<tr, caps, engineVars, startupVars, restVars>>

TracedQueryContext ==
    /\ spc = "tracer"
    /\ \E q \in Queries, args \in ArgLists, dur \in Durations, o \in BaseOutcomes :
           TracedStmt("query", "QueryerContext", q, args, dur, o.res, o.err)
    /\ UNCHANGED <<tr, caps, engineVars, startupVars, restVars>>

\* Fault variant: the operation is handed to log like a statement.
PlainLogged(op, q, called, r, e, out) ==
    LET l == log(tr, n, op, q, <<>>, 0, e)
    IN  /\ last' = [op |-> op, q |-> q, args |-> <<>>, dur |-> 0, called |-> called,
                    baseRes |-> r, baseErr |-> e, res |-> out.res, err |-> out.err,
                    events |-> l.events, n0 |-> n]
        /\ n' = l.n
        /\ UNCHANGED <<tr, caps, K, slow, engineVars, startupVars, restVars>>

\* An operation without instrumentation: what it returns, whether the base
\* was called, and what the base returns (or would return) for it.
Plain(op, q, called, r, e, out) ==
    /\ last' = [op |-> op, q |-> q, args |-> <<>>, dur |-> 0, called |-> called,
                baseRes |-> r, baseErr |-> e, res |-> out.res, err |-> out.err,
                events |-> <<>>, n0 |-> n]
    /\ UNCHANGED <<tr, caps, n, K, slow, engineVars, startupVars, restVars>>

\* Prepare(q): return c.base.Prepare(q)
TracedPrepare ==
    /\ spc = "tracer"
    /\ \E q \in Queries, o \in BaseOutcomes :
           Plain("prepare", q, TRUE, o.res, o.err, Returned(o.res, o.err))

\* The driver.Stmt that Prepare returned is the base connection's own: its
\* Exec or Query runs on the base, takes dur and returns (r, e); no method of
\* the traced connection is on the way.
PreparedStmtExec ==
    /\ spc = "tracer"
    /\ \/ last.op = "prepare" /\ last.err = "nil" /\ last.res # "nil"
       \/ last.op = "stmt"
    /\ \E dur \in Durations, o \in BaseOutcomes :
           last' = [op |-> "stmt", q |-> last.q, args |-> <<>>, dur |-> dur, called |-> TRUE,
                    baseRes |-> o.res, baseErr |-> o.err, res |-> o.res, err |-> o.err,
                    events |-> <<>>, n0 |-> n]
    /\ UNCHANGED <<tr, caps, n, K, slow, engineVars, startupVars, restVars>>

\* Close(): return c.base.Close()
TracedClose ==
    /\ spc = "tracer"
    /\ \E e \in BaseErrors : Plain("close", <<>>, TRUE, "nil", e, Returned("nil", e))

\* Begin(): return nil, driver.ErrSkip; the base's own Begin, which is not
\* called, would return (r, e).
TracedBegin ==
    /\ spc = "tracer"
    /\ \E o \in BaseOutcomes :
           Plain("begin", <<>>, FALSE, o.res, o.err, Returned("nil", ErrSkip))

\* BeginTx(ctx, opts): delegated when the base is a driver.ConnBeginTx, else
\* driver.ErrSkip; (r, e) is what the base's BeginTx returns, or what its
\* Begin would return when it has no BeginTx.
TracedBeginTx ==
    /\ spc = "tracer"
    /\ \E o \in BaseOutcomes :
           IF "ConnBeginTx" \in caps
           THEN Plain("begintx", <<>>, TRUE, o.res, o.err, Returned(o.res, o.err))
           ELSE Plain("begintx", <<>>, FALSE, o.res, o.err, Returned("nil", ErrSkip))

\* One traced connection with any Tracer over any base connection.
TracerInit ==
    /\ EngineInit
    /\ spc = "tracer"
    /\ level = "INFO"
    /\ sqlDb = "open"
    /\ failed = {}
    /\ tr \in Tracers \cup {NilTracer}
    /\ caps \in BaseConns
    /\ n = 0
    /\ K = 0
    /\ slow = 0
    /\ last = NoCall
    /\ RestIdle

TracerNext ==
    \/ TracedPrepare
    \/ PreparedStmtExec
    \/ TracedClose
    \/ TracedBegin
    \/ TracedBeginTx
    \/ TracedExecContext
    \/ TracedQueryContext

SpecTracer == TracerInit /\ [][TracerNext]_vars

\* --------------------------------- connections opened through the driver
\* What d.base.Open returns: a base connection (its optional interfaces)
\* and a nil error, or no connection (c unused) and an error.
BaseOpens ==
    { [c |-> bc, err |-> "nil"] : bc \in BaseConns } \cup
    { [c |-> {}, err |-> e] : e \in BaseErrors \ {"nil"} }

\* The Tracers a driver is registered with in this specification.
DriverTracers ==
    { t \in Tracers : t.SlowThresh = 2 /\ t.MaskArgs } \cup {NilTracer}

\* Fault variant: the connection does not get the driver's Tracer.
OpenNoTracer(t, bc, e) ==
    IF e # "nil" THEN [conn |-> NilConn, err |-> e]
    ELSE [conn |-> [base |-> bc, t |-> NilTracer, n |-> 0, hist |-> <<>>], err |-> "nil"]

\* tracedDriver.Open of a driver with Tracer t when d.base.Open returned
\* (bc, e): &tracedConn{base: c, t: d.t}, whose n is the zero value. hist
\* is history: for each successful operation at or above a positive
\* threshold, whether it wrote a slow-query record.
Open(t, bc, e) ==
    IF e # "nil" THEN [conn |-> NilConn, err |-> e]
    ELSE [conn |-> [base |-> bc, t |-> t, n |-> 0, hist |-> <<>>], err |-> "nil"]

\* Fault variant: one counter for all connections of the driver.
AdvanceShared(cs, c, new) ==
    [k \in Slots |->
        IF k = c THEN new
        ELSE IF cs[k] = NilConn THEN NilConn ELSE [cs[k] EXCEPT !.n = new.n]]

\* n is a field of tracedConn and sampled has a pointer receiver: c.n++
\* writes the counter of the connection operated on.
Advance(cs, c, new) == [cs EXCEPT ![c] = new]

\* A successful operation at or above a positive threshold of Tracer t.
QualifiesOn(t, dur, e) ==
    /\ t # NilTracer
    /\ e = "nil"
    /\ t.SlowThresh > 0
    /\ dur >= t.SlowThresh

\* sql.Open on the registered driver name reaches tracedDriver.Open; the
\* connection returned takes slot c.
DriverOpen ==
    /\ spc = "driver"
    /\ \E c \in Slots, b \in BaseOpens :
           LET o == Open(drv, b.c, b.err)
           IN  /\ opened' = [slot |-> c, base |-> b.c, baseErr |-> b.err,
                             conn |-> o.conn, err |-> o.err]
               /\ conns' = IF o.conn = NilConn THEN conns
                           ELSE [conns EXCEPT ![c] = o.conn]
    /\ UNCHANGED <<drv, exceptDriver>>

\* ExecContext on the connection in slot c: the base takes dur and returns
\* error e.
DriverExecContext ==
    /\ spc = "driver"
    /\ \E c \in Slots, dur \in Durations, e \in BaseErrors :
           LET cn == conns[c]
           IN  /\ cn # NilConn
               /\ "ExecerContext" \in cn.base
               /\ LET l == log(cn.t, cn.n, "exec", <<"a">>, <<"s1">>, dur, e)
                      q == QualifiesOn(cn.t, dur, e)
                  IN  /\ q => Len(cn.hist) < MaxCalls
                      /\ conns' = Advance(conns, c,
                             [cn EXCEPT !.n = l.n,
                                        !.hist = IF q THEN Append(@, WarnCount(l.events) = 1)
                                                 ELSE @])
    /\ UNCHANGED <<drv, opened, exceptDriver>>

\* A driver registered with any Tracer, no connection opened yet.
DriverInit ==
    /\ EngineInit
    /\ spc = "driver"
    /\ level = "INFO"
    /\ sqlDb = "open"
    /\ failed = {}
    /\ TracerIdle
    /\ drv \in DriverTracers
    /\ conns = [c \in Slots |-> NilConn]
    /\ opened = NoOpen
    /\ HttpIdle
    /\ ServeIdle
    /\ FlagsIdle
    /\ MoreIdle

DriverNext ==
    \/ DriverOpen
    \/ DriverExecContext

SpecDriver == DriverInit /\ [][DriverNext]_vars

\* =================================================================== claims
\* Shared vocabulary of the properties below.

\* The entries discovery looks at: not a sub-directory, not hidden.
Considered(d) == { e \in d : e.kind # "dir" /\ e.name[1] # "." }

HasSeparator(name) == \E k \in 1..Len(name) : name[k] = "_"

\* The name is an integer prefix followed by the separator "_".
WellShaped(name) == HasSeparator(name) /\ AtoiOk(SplitHead(name))

VersionOf(e) == AtoiVal(SplitHead(e.name))

\* Two considered artifacts of d denote the same version number.
SameVersion(a, b) ==
    /\ a # b
    /\ AtoiOk(SplitHead(a.name))
    /\ AtoiOk(SplitHead(b.name))
    /\ VersionOf(a) = VersionOf(b)

HasDuplicate(d) == \E a, b \in Considered(d) : SameVersion(a, b)

\* The directories with a duplicated version.
DuplicateDirs == { d \in Dirs : HasDuplicate(d) }

\* The unit m was pending when the run started: its version is above every
\* version the ledger held (and above 0, the value for an empty ledger).
IsPending(m) == m.v > 0 /\ \A r \in pre.rows : m.v > r

PendingUnits == { k \in 1..Len(ms) : IsPending(ms[k]) }

\* The datastore after a run that applied every pending unit and committed.
PostDb ==
    [tbl |-> TRUE,
     rows |-> pre.rows \cup { ms[k].v : k \in PendingUnits },
     objs |-> pre.objs \cup { Effect(ms[k], FALSE) : k \in PendingUnits }]

SqlEvents == { k \in 1..Len(events) : events[k].op = "sql" }

RecEvents == { k \in 1..Len(events) : events[k].op = "rec" }

C2_SecondRunIdempotent ==
    again =>
        /\ events = <<>>
        /\ db.rows = pre.rows
        /\ (pc = "done" /\ ~ctxDone) => err = NoErr

\* The second run over a set of two or more units is over.
C2_Witness ==
    /\ again
    /\ pc = "done"
    /\ err = NoErr
    /\ Len(ms) >= 2
    /\ Cardinality(db.rows) >= 2

\* C3: in every committed state the ledger holds a version exactly when the
\* complete SQL effect of one unit of that version is committed.
C3_LedgerMatchesEffects ==
    /\ db.rows = { o.v : o \in db.objs }
    /\ \A o \in db.objs : ~o.part
    /\ Cardinality(db.objs) = Cardinality(db.rows)

\* A failed run that had executed SQL, on a datastore an earlier run migrated.
C3_Witness ==
    /\ pc = "done"
    /\ err.kind \in {"exec", "record", "commit"}
    /\ events # <<>>
    /\ db.rows # {}

\* C4: a run never sends the SQL of a unit whose version is at or below a
\* version the ledger recorded before the run.
C4_NoReexecution ==
    \A k \in SqlEvents : \A V \in pre.rows : events[k].v > V

\* A run on a migrated datastore that skipped a unit and executed another.
C4_Witness ==
    /\ pre.rows # {}
    /\ SqlEvents # {}
    /\ \E k \in 1..Len(ms) : \E V \in pre.rows : ms[k].v <= V

\* C5: the committed datastore, and so whatever a concurrent reader saw
\* during the run, is the state before the run or the state after its commit
\* with every pending unit applied.
C5_NoIntermediateState ==
    /\ db \in {pre, PostDb}
    /\ seen \subseteq {pre, PostDb}

\* A reader looked while the transaction held one applied unit of several.
C5_Witness ==
    /\ seen # {}
    /\ pc = "loop"
    /\ applied >= 1
    /\ i <= Len(ms)
    /\ tx # db

\* C6: the process serves HTTP only if no step of store initialization failed.
C6_ServesOnlyAfterInit ==
    spc \in {"serve", "serving"} => failed = {}

\* C7 as stated: a directory with two considered artifacts of one version
\* (both named integer prefix, then "_") makes Migrate return the
\* duplicate-version error.
C7_DuplicateErrorAlways ==
    (/\ pc = "done"
     /\ \E a, b \in Considered(dir) :
           SameVersion(a, b) /\ WellShaped(a.name) /\ WellShaped(b.name))
        => err.kind = "duplicate"

\* The considered artifact that is the later one, in directory order, of the
\* first duplicate pair the loop meets.
IsSecondDup(d, e) ==
    /\ \E a \in Considered(d) : SameVersion(a, e) /\ StrLess(a.name, e.name)
    /\ \A o \in Considered(d) :
         (\E a \in Considered(d) : SameVersion(a, o) /\ StrLess(a.name, o.name))
            => ~StrLess(o.name, e.name)

\* A considered artifact with a malformed name, or an unreadable one, that
\* the loop meets before e.
FaultBefore(d, e) ==
    \E f \in Considered(d) :
        /\ StrLess(f.name, e.name)
        /\ (~AtoiOk(SplitHead(f.name)) \/ f.kind = "unreadable")

\* C7 amended: with a duplicated version Migrate returns an error of
\* discovery without starting a transaction and the datastore is unchanged;
\* the error is the duplicate error, naming the version and two artifacts of
\* that version, unless a malformed or unreadable artifact comes earlier in
\* directory order than the second artifact of the first duplicate pair.
C7_DuplicateFailsDiscovery ==
    dir \in DuplicateDirs =>
        /\ pc \in {"idle", "done"}
        /\ ~txOpen
        /\ events = <<>>
        /\ db = pre
        /\ err.kind \in {"duplicate", "badname", "read"}
        /\ err.kind = "duplicate" =>
             \E a, b \in Considered(dir) :
                 /\ SameVersion(a, b)
                 /\ err.v = VersionOf(a)
                 /\ err.prev = a.name
                 /\ err.name = b.name
        /\ \A e \in Considered(dir) :
             (IsSecondDup(dir, e) /\ ~FaultBefore(dir, e)) => err.kind = "duplicate"

\* The spellings 01_ and 1_ of version 1, with a malformed name later in the
\* directory, met on a migrated datastore.
C7_Witness ==
    /\ pc = "done"
    /\ err.kind = "duplicate"
    /\ err.v = 1
    /\ err.prev = <<"0", "1", "_", "b">>
    /\ err.name = <<"1", "_", "a">>
    /\ \E e \in Considered(dir) : ~AtoiOk(SplitHead(e.name))
    /\ db.rows # {}

\* C8: a considered artifact whose name is not an integer prefix followed by
\* "_" makes discovery fail: the run ends with an error of discovery, no
\* transaction is started and the datastore is unchanged.
C8_MalformedNameFailsDiscovery ==
    (\E e \in Considered(dir) : ~WellShaped(e.name)) =>
        /\ pc \in {"idle", "done"}
        /\ err.kind \in {"badname", "duplicate", "read"}
        /\ db = pre

\* C9: the statements of a run go out in strictly ascending unit version:
\* each unit's SQL, then its ledger insert, then the next higher unit.
C9_AscendingOrder ==
    \A j, k \in 1..Len(events) :
        j < k =>
            \/ events[j].v < events[k].v
            \/ /\ events[j].v = events[k].v
               /\ events[j].op = "sql"
               /\ events[k].op = "rec"
               /\ k = j + 1

\* Units 10 and 2, met in directory order 10_a before 2_a, both applied.
C9_Witness ==
    /\ pc = "done"
    /\ err = NoErr
    /\ ReadDir(dir) = << Art(<<"1", "0", "_", "a">>, "file", "ok"),
                         Art(<<"2", "_", "a">>, "file", "ok") >>
    /\ Len(events) = 4

\* What C10 says of a successful run on a datastore with recorded versions,
\* apart from the final maximum: the SQL of exactly the pending units was
\* sent, each once, and exactly their versions were added to the ledger.
AppliedExactlyPending ==
    /\ { events[k].v : k \in SqlEvents } = { ms[k].v : k \in PendingUnits }
    /\ Cardinality(SqlEvents) = Cardinality(PendingUnits)
    /\ { events[k].v : k \in RecEvents } = { ms[k].v : k \in PendingUnits }
    /\ Cardinality(RecEvents) = Cardinality(PendingUnits)
    /\ db.rows = pre.rows \cup { ms[k].v : k \in PendingUnits }

SuccessOnMigrated == pc = "done" /\ err = NoErr /\ pre.rows # {} /\ ms # <<>>

\* MAX(version) of a non-empty set of versions.
MaxVersion(S) == CHOOSE x \in S : \A y \in S : y <= x

HighestOfSet == MaxVersion({ ms[k].v : k \in 1..Len(ms) })

\* C10 as stated, for a set of positive versions: afterwards MAX(version) is
\* the highest version of the set.
C10_MaxIsHighestOfSet ==
    (SuccessOnMigrated /\ \A k \in 1..Len(ms) : ms[k].v > 0) =>
        /\ AppliedExactlyPending
        /\ MaxVersion(db.rows) = HighestOfSet

\* C10 amended: afterwards MAX(version) is the larger of the maximum recorded
\* before the run and the highest version of the set.
C10_AppliesExactlyPending ==
    SuccessOnMigrated =>
        /\ AppliedExactlyPending
        /\ MaxVersion(db.rows) = MaxVersion({MaxVersion(pre.rows), HighestOfSet})

\* Units 1, 2, 3 with 1 and 2 recorded: unit 3 alone was applied.
C10_Witness ==
    /\ SuccessOnMigrated
    /\ pre.rows = {1, 2}
    /\ { ms[k].v : k \in 1..Len(ms) } = {1, 2, 3}
    /\ Len(events) = 2
    /\ db.rows = {1, 2, 3}

\* A successful first run on an empty datastore, over units of positive
\* versions.
FirstRunDone ==
    /\ pc = "done"
    /\ err = NoErr
    /\ pre = EmptyDb
    /\ ms # <<>>
    /\ \A k \in 1..Len(ms) : ms[k].v > 0

\* C11: after one successful run on an empty datastore over units of
\* distinct positive versions, the ledger holds exactly the versions of the
\* units, the complete schema change of every unit is present, and
\* MAX(version) is the highest unit version.
C11_FirstRunAppliesAll ==
    FirstRunDone =>
        /\ db.tbl
        /\ db.rows = { ms[k].v : k \in 1..Len(ms) }
        /\ Cardinality(db.rows) = Len(ms)
        /\ db.objs = { [v |-> ms[k].v, name |-> ms[k].name, part |-> FALSE] : k \in 1..Len(ms) }
        /\ MaxVersion(db.rows) = HighestOfSet

\* Units 1 and 2 applied to an empty datastore.
C11_Witness ==
    /\ FirstRunDone
    /\ { ms[k].name : k \in 1..Len(ms) } = { <<"1", "_", "a">>, <<"2", "_", "a">> }
    /\ db.rows = {1, 2}

\* The errors discovery returns, before any transaction.
DiscoveryErrors == {"badname", "duplicate", "read"}

\* A finished run whose set was discovered and held no pending unit, with
\* the caller's context alive.
NothingPendingDone ==
    /\ pc = "done"
    /\ err.kind \notin DiscoveryErrors
    /\ PendingUnits = {}
    /\ ~ctxDone

\* C12: a run with no pending unit (empty set, or every unit at or below the
\* recorded maximum) returns nil and has committed: the ledger table exists,
\* created if it was absent, and rows and schema are as before the run; on an
\* empty datastore with an empty directory the table exists with zero rows.
C12_EmptyRunCommits ==
    NothingPendingDone =>
        /\ err = NoErr
        /\ ~txOpen
        /\ events = <<>>
        /\ db = [tbl |-> TRUE, rows |-> pre.rows, objs |-> pre.objs]
        /\ (dir = {} /\ pre = EmptyDb) => db = [tbl |-> TRUE, rows |-> {}, objs |-> {}]

\* The run over an empty directory on an empty datastore is over.
C12_Witness ==
    /\ NothingPendingDone
    /\ dir = {}
    /\ ~pre.tbl
    /\ db.tbl
    /\ db.rows = {}

\* C13: a run whose context was cancelled after discovery, before or after
\* the transaction began (at the ledger creation, the version read, a unit's
\* SQL, a ledger insert or the commit), returns an error with no transaction
\* left open and the committed datastore as it was before the run.
C13_CancelRollsBack ==
    (pc = "done" /\ ctxDone) =>
        /\ err # NoErr
        /\ err.kind \in {"begin", "create", "current", "exec", "record", "commit"}
        /\ ~txOpen
        /\ db = pre

\* The context was cancelled after a unit's SQL ran in the transaction: the
\* ledger insert failed.
C13_Witness ==
    /\ pc = "done"
    /\ ctxDone
    /\ err.kind = "record"
    /\ SqlEvents # {}
    /\ ~pre.tbl

\* The last operation was an ExecContext or QueryContext that the base
\* connection supports, so that the base was called.
StmtDelegated == last.op \in {"exec", "query"} /\ last.called

\* C14: ExecContext and QueryContext on a base connection that supports the
\* operation return the result value and the error value the base returned,
\* for every query, argument list and Tracer: no success becomes a failure,
\* no failure a success, and the error is neither wrapped nor replaced.
C14_ResultPassedThrough ==
    StmtDelegated =>
        /\ last.res = last.baseRes
        /\ last.err = last.baseErr

\* The base failed a query with e2 and an error record was written.
C14_Witness ==
    /\ StmtDelegated
    /\ last.op = "query"
    /\ last.baseErr = "e2"
    /\ last.err = "e2"
    /\ last.events # <<>>

\* C15: an operation of the traced connection (prepare, close, begin with or
\* without context, execute, query) that the base connection completes
\* without error, a legacy Begin included, does not fail.
C15_NeverFailsBaseSuccess ==
    /\ (last.op \in {"prepare", "close", "begin", "begintx"} /\ last.baseErr = "nil")
          => last.err = "nil"
    /\ (StmtDelegated /\ last.baseErr = "nil") => last.err = "nil"

\* The record log writes for a failed operation, field by field.
ExpectedErrorRecord ==
    [level |-> "ERROR", msg |-> "db.query.error", kind |-> last.op,
     sql |-> compact(last.q),
     args |-> IF tr.MaskArgs THEN [str |-> "[masked]"] ELSE [list |-> last.args],
     dur |-> last.dur, err |-> last.baseErr]

\* C16: on a connection with a Tracer, a base error of ExecContext or
\* QueryContext hands exactly one error record to the logger, whatever
\* SlowThresh, SampleEvery and the duration, and no slow-query record; the
\* record carries the operation kind, the normalized query, the rendering of
\* the arguments, the duration and the error text; the counter stays.
C16_ErrorAlwaysLogged ==
    (StmtDelegated /\ last.baseErr # "nil" /\ tr # NilTracer) =>
        /\ last.events = << ExpectedErrorRecord >>
        /\ n = last.n0

\* A failed exec that took less than the threshold under 1-in-3 sampling.
C16_Witness ==
    /\ StmtDelegated
    /\ last.op = "exec"
    /\ last.baseErr = "e1"
    /\ tr # NilTracer
    /\ tr.SlowThresh = 2
    /\ last.dur = 1
    /\ tr.SampleEvery = 3
    /\ Len(last.events) = 1

\* The last operation succeeded at or above a positive threshold.
LastQualifies ==
    /\ StmtDelegated
    /\ last.baseErr = "nil"
    /\ tr # NilTracer
    /\ tr.SlowThresh > 0
    /\ last.dur >= tr.SlowThresh

\* C17: with SampleEvery = N >= 2, of the K successful operations at or
\* above a positive threshold exactly floor(K/N) wrote a slow-query record,
\* namely the N-th, 2N-th, ...; with N <= 1 (0 and negative included) all K.
C17_SamplingRate ==
    tr # NilTracer =>
        /\ slow = IF tr.SampleEvery >= 2 THEN K \div tr.SampleEvery ELSE K
        /\ (LastQualifies /\ tr.SampleEvery >= 2) =>
              (WarnCount(last.events) = 1 <=> K % tr.SampleEvery = 0)
        /\ (LastQualifies /\ tr.SampleEvery <= 1) => WarnCount(last.events) = 1

\* Under 1-in-2 sampling the fourth slow operation wrote the second record.
C17_Witness ==
    /\ tr # NilTracer
    /\ tr.SampleEvery = 2
    /\ K = 4
    /\ slow = 2
    /\ LastQualifies
    /\ Len(last.events) = 1

\* The last operation succeeded on a connection with a Tracer.
StmtSucceeded == StmtDelegated /\ last.baseErr = "nil" /\ tr # NilTracer

\* C18: a successful ExecContext or QueryContext writes no record and leaves
\* the counter alone when SlowThresh <= 0, for every duration, or when the
\* duration is below SlowThresh, and it returns no error for that; a
\* duration equal to SlowThresh is slow and goes through sampling.
C18_FastOrDisabledSilent ==
    StmtSucceeded =>
        /\ (tr.SlowThresh <= 0 \/ last.dur < tr.SlowThresh) =>
              /\ last.events = <<>>
              /\ n = last.n0
              /\ last.err = "nil"
        /\ (tr.SlowThresh > 0 /\ last.dur = tr.SlowThresh) =>
              /\ tr.SampleEvery <= 1 => WarnCount(last.events) = 1
              /\ tr.SampleEvery >= 2 =>
                    /\ n = last.n0 + 1
                    /\ WarnCount(last.events) = 1 <=> n % tr.SampleEvery = 0

\* A success that took three units under a negative threshold.
C18_Witness ==
    /\ StmtSucceeded
    /\ tr.SlowThresh = -1
    /\ last.dur = 3
    /\ last.events = <<>>

ErrorRecords == { k \in 1..Len(last.events) : last.events[k].level = "ERROR" }

\* C19: with MaskArgs true the args field of every error record is the
\* placeholder "[masked]", so the same failing call with any other argument
\* list writes the same args field; with MaskArgs false it is the raw
\* argument list. Which of the two depends on the Tracer alone.
C19_MaskedArguments ==
    \A k \in ErrorRecords :
        /\ tr.MaskArgs => last.events[k].args = [str |-> "[masked]"]
        /\ ~tr.MaskArgs => last.events[k].args = [list |-> last.args]
        /\ tr.MaskArgs =>
              \A other \in ArgLists :
                  log(tr, last.n0, last.op, last.q, other, last.dur, last.baseErr).events[1].args
                      = last.events[k].args

\* A failed call with argument s2 under MaskArgs.
C19_Witness ==
    /\ ErrorRecords # {}
    /\ tr.MaskArgs
    /\ last.args = <<"s2">>

SlowRecords == { k \in 1..Len(last.events) : last.events[k].level = "WARN" }

\* C20: a slow-query record holds the operation kind, the normalized query
\* and the duration and nothing else, so no argument value, with MaskArgs
\* true or false.
C20_SlowRecordHasNoArgs ==
    \A k \in SlowRecords :
        last.events[k] = [level |-> "WARN", msg |-> "db.query.slow", kind |-> last.op,
                          sql |-> compact(last.q), dur |-> last.dur]

\* A slow query with arguments, written without masking.
C20_Witness ==
    /\ SlowRecords # {}
    /\ ~tr.MaskArgs
    /\ last.args = <<"s1">>
    /\ last.op = "query"

\* The last operation found the base connection without the optional
\* interface it needs.
Unsupported ==
    \/ last.op = "exec" /\ "ExecerContext" \notin caps
    \/ last.op = "query" /\ "QueryerContext" \notin caps
    \/ last.op = "begintx" /\ "ConnBeginTx" \notin caps

\* C21: ExecContext, QueryContext and BeginTx on a base connection without
\* the matching interface return driver.ErrSkip, do not call the base, write
\* no record and leave the counter; the operation is then not dropped: the
\* default path of the traced connection (Prepare for a statement, Begin for
\* a transaction) reaches the base connection.
C21_UnsupportedFallsBack ==
    /\ Unsupported =>
          /\ last.err = ErrSkip
          /\ ~last.called
          /\ last.events = <<>>
          /\ n = last.n0
    /\ last.op = "prepare" => last.called
    /\ (last.op = "begin" /\ "ConnBeginTx" \notin caps) => last.called

\* A character that is not white space.
NotBlank(c) == c \notin {" ", "\n", "\t"}

\* The number of maximal runs of non-blank characters of s.
TokenStarts(s) ==
    Cardinality({ k \in 1..Len(s) : NotBlank(s[k]) /\ (k = 1 \/ ~NotBlank(s[k - 1])) })

\* C23: the query text of every record is the input normalized: no newline,
\* no tab, no two spaces in a row, no space at either end, the same
\* non-blank characters in the same order in the same number of tokens; and
\* normalizing it again changes nothing.
C23_QueryNormalized ==
    \A k \in 1..Len(last.events) :
        LET s == last.events[k].sql
        IN  /\ \A j \in 1..Len(s) : s[j] \notin {"\n", "\t"}
            /\ \A j \in 1..(Len(s) - 1) : ~(s[j] = " " /\ s[j + 1] = " ")
            /\ s # <<>> => (s[1] # " " /\ s[Len(s)] # " ")
            /\ SelectSeq(s, NotBlank) = SelectSeq(last.q, NotBlank)
            /\ TokenStarts(s) = TokenStarts(last.q)
            /\ compact(s) = s

\* A record for the query with newlines, a tab and spaces at both ends.
C23_Witness ==
    /\ last.q = <<"\n", "a", "\t", "\n", " ", "b", " ">>
    /\ Len(last.events) = 1
    /\ last.events[1].sql = <<"a", " ", "b">>

\* The expected 1-in-N pattern for the k-th qualifying operation of a connection.
Every(t, k) == t.SampleEvery <= 1 \/ k % t.SampleEvery = 0

\* C22: the sampling decisions on a connection are determined by its own
\* operations: whatever was done on the other connection, its counter is the
\* number of its own qualifying operations (zero when it was just opened, and
\* always zero when every event is logged) and its k-th qualifying operation
\* wrote a slow-query record exactly when k is a multiple of SampleEvery.
C22_PerConnectionSampling ==
    \A c \in Slots :
        (conns[c] # NilConn /\ conns[c].t # NilTracer) =>
            LET cn == conns[c]
            IN  /\ cn.n = IF cn.t.SampleEvery >= 2 THEN Len(cn.hist) ELSE 0
                /\ \A k \in 1..Len(cn.hist) : cn.hist[k] = Every(cn.t, k)

\* Two connections under 1-in-2 sampling with different numbers of slow
\* operations: A's second and B's second wrote a record, B's third did not.
C22_Witness ==
    /\ drv # NilTracer
    /\ drv.SampleEvery = 2
    /\ conns["A"] # NilConn
    /\ conns["B"] # NilConn
    /\ conns["A"].hist = <<FALSE, TRUE>>
    /\ conns["B"].hist = <<FALSE, TRUE, FALSE>>
    /\ conns["A"].n = 2
    /\ conns["B"].n = 3

\* C24: Open returns a nil connection and the base driver's error when the
\* base Open fails, and otherwise a connection over the base connection with
\* the driver's Tracer and a counter of zero.
C24_OpenResult ==
    opened.slot # "none" =>
        IF opened.baseErr # "nil"
        THEN /\ opened.conn = NilConn
             /\ opened.err = opened.baseErr
        ELSE /\ opened.err = "nil"
             /\ opened.conn # NilConn
             /\ opened.conn.base = opened.base
             /\ opened.conn.t = drv
             /\ opened.conn.n = 0

\* B was opened after A had counted two slow operations: it has the driver's
\* Tracer, as A has, and starts at zero.
C24_Witness ==
    /\ opened.slot = "B"
    /\ opened.err = "nil"
    /\ drv # NilTracer
    /\ conns["A"] # NilConn
    /\ conns["A"].n = 2
    /\ conns["B"] = opened.conn
    /\ conns["B"].t = conns["A"].t
    /\ conns["B"].n = 0

\* C25: a call of logger.Fatal ends the process at that call, whatever the
\* -logger.level: once a step of store.Init has failed and called Fatal, no
\* later position of the program is reached.
C25_FatalNeverReturns ==
    failed # {} => spc = "exited"

\* A request whose ledger read failed has been answered.
ReadFailed == resp.status # 0 /\ resp.cause # "nil"

ServingAfterSuccess == spc = "serving" /\ failed = {} /\ err = NoErr

\* What C30 says of every answer: 200 with MAX(version) of the ledger when
\* the read succeeded, 500 without a version when it failed.
AnswersLedgerMax ==
    /\ resp.status \in {0, 200, 500}
    /\ resp.status = 200 =>
          /\ resp.cause = "nil"
          /\ resp.body = [version |-> CurrentVersion(db.rows)]
    /\ resp.status = 500 =>
          /\ resp.cause # "nil"
          /\ "version" \notin DOMAIN resp.body
    /\ ReadFailed => resp.status = 500

\* C30 as stated: after a successful startup the version answered is the
\* highest version of the embedded units.
C30_VersionIsHighestEmbedded ==
    /\ AnswersLedgerMax
    /\ (ServingAfterSuccess /\ resp.status = 200 /\ ms # <<>>) =>
          resp.body.version = HighestOfSet

\* C30 amended: after a successful startup the version answered is the
\* larger of the maximum recorded before the startup and the highest version
\* of the embedded units.
C30_VersionIsLedgerMax ==
    /\ AnswersLedgerMax
    /\ (ServingAfterSuccess /\ resp.status = 200) =>
          resp.body.version =
              IF ms = <<>> THEN CurrentVersion(pre.rows)
              ELSE MaxVersion({CurrentVersion(pre.rows), HighestOfSet})

\* A binary embedding unit 1 alone serves a datastore that records 1 and 2:
\* the endpoint answers 2.
C30_Witness ==
    /\ ServingAfterSuccess
    /\ resp.status = 200
    /\ pre.rows = {1, 2}
    /\ ms # <<>>
    /\ HighestOfSet = 1
    /\ resp.body = [version |-> 2]

\* No request was admitted after Shutdown was called, and none was cut.
InFlightPreserved ==
    \A r \in Reqs :
        /\ reqs[r].st \in {"handling", "done"} => reqs[r].at = "select"
        /\ reqs[r].st # "aborted"

\* ServeWithListener has returned after the context was cancelled during a
\* request, and every request handled finished before the bound expired.
CancelledInFlight ==
    /\ mpc = "returned"
    /\ inflight # {}
    /\ \A r \in Reqs : reqs[r].st = "handling" \/ reqs[r].st = "done" =>
           reqs[r].st = "done" /\ reqs[r].inTime

\* C27 as stated: after a cancellation during a request no new connection
\* is admitted, the request is not cut, and when its handler finishes within
\* the bound ServeWithListener returns nil.
C27_GracefulReturnsNil ==
    /\ InFlightPreserved
    /\ CancelledInFlight => ret = "nil"

\* C27 amended: no new connection is admitted and the request is not cut;
\* ServeWithListener returns the error of srv.Serve when Serve failed on its
\* own, else DeadlineExceeded when Shutdown was woken by the expiry of the
\* bound, else nil, and it returns nil only after the requests in flight at
\* the cancellation were answered.
C27_GracefulShutdown ==
    /\ InFlightPreserved
    /\ (mpc = "returned" /\ sctx /\ inflight # {}) =>
          /\ ret = IF gor \in ServeErrors THEN gor
                   ELSE IF shutdownErr = DeadlineExceeded THEN DeadlineExceeded
                   ELSE "nil"
          /\ (ret = "nil" /\ shutdownErr = "nil") =>
                \A r \in inflight : reqs[r].st = "done"

\* Request 1 was in flight at the cancellation and was answered, request 2
\* was refused during the shutdown, and nil was returned.
C27_Witness ==
    /\ mpc = "returned"
    /\ ret = "nil"
    /\ inflight = {1}
    /\ reqs[1].st = "done"
    /\ reqs[2].st = "refused"
    /\ reqs[2].at = "shutdown"

\* The variable looked up for the bool flag, which is not given on the
\* command line, holds a value the flag rejects.
RejectedEnv ==
    /\ ~argv[VersionFlag].ok
    /\ LET e == LookupEnv(getEnvFlagName(VersionFlag, flags[PrefixFlag]))
       IN  e.ok /\ ~Accepts(VersionFlag, e.v)

\* C28: ParseFlagSetErr never panics, and when an environment variable holds
\* a value its flag rejects it returns a non-nil error.
C28_InvalidEnvReturnsError ==
    /\ fpc # "panicked"
    /\ (RejectedEnv /\ fpc \notin {"parse", "visit"}) =>
          /\ fpc \in {"returned", "exited"}
          /\ fret \notin {"nil", "pending"}

\* ParseFlagSet has returned.
Parsed == fpc = "returned" /\ fret = "nil"

\* The value the rule of C29 gives flag f under prefix p.
Expected(p, f) ==
    IF argv[f].ok THEN argv[f].v
    ELSE LET e == LookupEnv(getEnvFlagName(f, p))
         IN  IF e.ok THEN e.v ELSE Default(f)

\* C29 as stated, with one prefix for all flags, be it the value of
\* -envflag.prefix before or after the parse.
C29_OnePrefixForAll ==
    Parsed =>
        \E p \in {Default(PrefixFlag), flags[PrefixFlag]} :
            \A f \in FlagNames : flags[f] = Expected(p, f)

\* The value of -envflag.prefix when the k-th flag is visited.
PrefixAt(k) ==
    IF \E j \in 1..(k - 1) : FlagOrder[j] = PrefixFlag
    THEN flags[PrefixFlag]
    ELSE IF argv[PrefixFlag].ok THEN argv[PrefixFlag].v ELSE Default(PrefixFlag)

\* C29 amended: the rule holds for every flag with the prefix in effect
\* when the flag is visited, and a command-line value is never overridden.
C29_PrefixAtVisit ==
    Parsed =>
        /\ \A k \in 1..Len(FlagOrder) :
               flags[FlagOrder[k]] = Expected(PrefixAt(k), FlagOrder[k])
        /\ \A f \in FlagNames : argv[f].ok => flags[f] = argv[f].v

\* The prefix P came from the environment: the address was read from the
\* variable with the prefix although the one without is set too, and the
\* command-line value of the bool flag won over its variable.
C29_Witness ==
    /\ Parsed
    /\ ~argv[PrefixFlag].ok
    /\ flags[PrefixFlag] = <<"P">>
    /\ ~argv[AddrFlag].ok
    /\ LookupEnv(getEnvFlagName(AddrFlag, <<>>)) = Some(<<"1">>)
    /\ LookupEnv(getEnvFlagName(AddrFlag, <<"P">>)) = Some(<<"2">>)
    /\ flags[AddrFlag] = <<"2">>
    /\ argv[VersionFlag] = Some(<<"1">>)
    /\ LookupEnv(getEnvFlagName(VersionFlag, <<"P">>)) = Some(<<"0">>)
    /\ flags[VersionFlag] = <<"1">>

\* INFO < WARN < ERROR
Rank(S) == CASE S = "INFO" -> 1 [] S = "WARN" -> 2 [] S = "ERROR" -> 3 [] OTHER -> 0

Graded(S) == S \in {"INFO", "WARN", "ERROR"}

WrittenAt(S) == Graded(S) /\ Rank(S) >= Rank(level)

\* C31: under level INFO, WARN or ERROR the lines written for the messages
\* of severity INFO, WARN and ERROR are, in order, exactly the messages at or
\* above the level; a message below it leaves no line.
C31_LevelFilter ==
    Graded(level) =>
        SelectSeq(written, Graded) = SelectSeq(sent, WrittenAt)

\* Under WARN, of an INFO, a WARN and an ERROR message the last two were written.
C31_Witness ==
    /\ level = "WARN"
    /\ sent = <<"INFO", "WARN", "ERROR">>
    /\ written = <<"WARN", "ERROR">>

\* The units of the set below the maximum recorded version that the ledger
\* does not hold.
GapUnits ==
    { k \in 1..Len(ms) :
        /\ pre.rows # {}
        /\ ms[k].v < MaxVersion(pre.rows)
        /\ ms[k].v \notin pre.rows }

\* C32: a unit whose version is below the maximum recorded version and is
\* not in the ledger is never executed nor recorded by a run, no error of the
\* run names it, and a run with nothing else to do succeeds and leaves the
\* datastore as it was: the gap stays.
C32_GapIsPermanent ==
    \A k \in GapUnits :
        /\ \A j \in 1..Len(events) : events[j].v # ms[k].v
        /\ ms[k].v \notin db.rows
        /\ ms[k].v \notin tx.rows
        /\ err.kind \in {"exec", "record"} => err.v # ms[k].v
        /\ (pc = "done" /\ ~ctxDone /\ PendingUnits = {}) =>
               (err = NoErr /\ db.rows = pre.rows /\ db.objs = pre.objs)

\* Versions 1 and 3 are recorded and the set holds 1, 2 and 3: the run
\* succeeds and version 2 is still missing.
C32_Witness ==
    /\ pc = "done"
    /\ err = NoErr
    /\ pre.rows = {1, 3}
    /\ { ms[k].v : k \in 1..Len(ms) } = {1, 2, 3}
    /\ GapUnits # {}
    /\ events = <<>>
    /\ db.rows = {1, 3}

\* C33: discovery never yields a unit with a version of zero or below, so on
\* an empty ledger no unit of the set is passed over.
C33_VersionsArePositive ==
    /\ \A k \in 1..Len(ms) : ms[k].v > 0
    /\ (pc = "done" /\ err = NoErr /\ pre.rows = {}) =>
           { ms[k].v : k \in 1..Len(ms) } \subseteq db.rows

\* C34: whenever Migrate has returned, with an error of any step or with
\* success, the transaction it began is ended and holds nothing beyond the
\* committed datastore.
C34_TransactionEnded ==
    pc \in {"done", "idle"} => (~txOpen /\ tx = db)

\* The run got past BeginTx, executed a unit, and returned the error of the
\* ledger insert, of the commit or of the unit; the transaction is ended.
C34_Witness ==
    /\ pc = "done"
    /\ err.kind \in {"create", "current", "exec", "record", "commit"}
    /\ events # <<>>
    /\ ~txOpen
    /\ db = pre


\* The entry is a sub-directory or its name begins with ".".
IsSkipped(e) == e.kind = "dir" \/ (e.name # <<>> /\ e.name[1] = ".")

\* The directory without its sub-directories and hidden entries.
Kept(d) == { e \in d : ~IsSkipped(e) }

\* C39: sub-directories and entries whose name begins with "." give no unit
\* and no error, whatever their name: no unit and no error of discovery
\* carries such a name, and discovery ends as it does on the directory
\* without them.
C39_SkippedEntriesIgnored ==
    pc # "idle" =>
        LET r == Discover(Kept(dir))
        IN  /\ \A k \in 1..Len(ms) : \A e \in dir : IsSkipped(e) => ms[k].name # e.name
            /\ err.kind \in {"badname", "read", "duplicate"} =>
                   \A e \in dir : IsSkipped(e) =>
                       /\ err.name # e.name
                       /\ err.kind = "duplicate" => err.prev # e.name
            /\ err = r.err
            /\ ms = SortByVersion(r.ms)
            /\ Kept(dir) = {} => (err = NoErr /\ ms = <<>>)

\* A sub-directory with a malformed name, a hidden entry with the version of
\* a file, and that file: discovery yields the file's unit alone.
C39_Witness ==
    /\ pc = "begin"
    /\ err = NoErr
    /\ Art(<<"a">>, "dir", "ok") \in dir
    /\ Art(<<".", "2", "_", "a">>, "file", "ok") \in dir
    /\ Len(ms) = 1
    /\ ms[1].name = <<"2", "_", "a">>

\* C35: the counter of a connection moves only in a sampling check: an
\* operation changes it exactly when it succeeded at or above a positive
\* threshold with SampleEvery >= 2, and then by one; failed, fast,
\* threshold-disabled, unsupported and uninstrumented operations leave it,
\* and it never decreases.
C35_CounterMovesOnlyWhenSampling ==
    /\ n >= last.n0
    /\ n # last.n0 <=> (LastQualifies /\ tr.SampleEvery >= 2)
    /\ n # last.n0 => n = last.n0 + 1

\* After one counted operation a slow operation failed: the counter is
\* still 1.
C35_Witness ==
    /\ tr # NilTracer
    /\ tr.SampleEvery = 2
    /\ tr.SlowThresh > 0
    /\ StmtDelegated
    /\ last.baseErr = "e1"
    /\ last.dur >= tr.SlowThresh
    /\ last.n0 = 1
    /\ n = 1

\* C38: Prepare and Close return what the base returns, write no record
\* and leave the counter; a statement obtained through Prepare runs on the
\* base, returns the base's values and writes no error or slow-query record
\* however it ends and however long it takes.
C38_PrepareCloseUninstrumented ==
    last.op \in {"prepare", "close", "stmt"} =>
        /\ last.called
        /\ last.res = last.baseRes
        /\ last.err = last.baseErr
        /\ last.events = <<>>
        /\ n = last.n0

\* On a connection whose Tracer logs every slow operation, a statement
\* obtained through Prepare took long and failed with the base's error, and
\* nothing was written.
C38_Witness ==
    /\ tr # NilTracer
    /\ tr.SlowThresh > 0
    /\ tr.SampleEvery = 1
    /\ last.op = "stmt"
    /\ last.dur >= tr.SlowThresh
    /\ last.baseErr = "e1"
    /\ last.err = "e1"
    /\ last.events = <<>>

\* What the goroutine left on errCh: the one error of Serve, until it is
\* received, or the closed channel.
ServeResultOnChannel ==
    /\ gor \in ServeErrors => errCh \in {gor, "empty"}
    /\ gor = "closed" => errCh = "closed"
    /\ gor = "serve" => errCh = "empty"
    /\ (gor \in ServeErrors /\ mpc \in {"select", "shutdown", "drain"}) => errCh = gor

\* The value serveWithShutdown returned.
ReturnedValueRight ==
    mpc = "returned" =>
        ret = IF gor \in ServeErrors THEN gor
              ELSE IF shutdownErr = DeadlineExceeded THEN DeadlineExceeded
              ELSE "nil"

\* C37: once the serving context is cancelled serveWithShutdown returns,
\* whether or not the handlers ever finish: the goroutine leaves exactly one
\* error on errCh or closes it, so the receive after Shutdown proceeds; the
\* value returned is the error of Serve if Serve failed on its own, else
\* DeadlineExceeded if Shutdown was woken by the expiry of its bound, else
\* nil.
C37_AlwaysReturns ==
    /\ [](ServeResultOnChannel /\ ReturnedValueRight)
    /\ (sctx ~> mpc = "returned")

\* The context was cancelled during a request whose handler never finished:
\* DeadlineExceeded was returned.
C37_Witness ==
    /\ sctx
    /\ mpc = "returned"
    /\ ret = DeadlineExceeded
    /\ gor = "closed"
    /\ \E r \in Reqs : reqs[r].st = "handling"

\* C36: WithTx calls tx.Commit exactly when the callback returned nil and
\* then returns Commit's result, the rows written being committed when that
\* is nil; a callback error is returned as it is and nothing the callback
\* wrote is kept; when BeginTx fails its error is returned and the callback
\* is not invoked; on every path no transaction is left open.
C36_WithTxCommitsOnNil ==
    wpc = "returned" =>
        /\ ~wOpen
        /\ wtx = wdb
        /\ whist.began # "nil" =>
               (~whist.called /\ ~whist.commit /\ wret = whist.began /\ wdb = whist.pre)
        /\ whist.began = "nil" => whist.called
        /\ whist.called => (whist.commit <=> cbErr = "nil")
        /\ (whist.called /\ cbErr # "nil") => (wret = cbErr /\ wdb = whist.pre)
        /\ (whist.called /\ cbErr = "nil") =>
               /\ wret = whist.commitErr
               /\ wdb = IF wret = "nil" THEN whist.work ELSE whist.pre

\* The callback wrote a row and returned e1: e1 was returned and the row is
\* not in the datastore.
C36_Witness ==
    /\ wpc = "returned"
    /\ whist.called
    /\ cbErr = "e1"
    /\ wret = "e1"
    /\ whist.work # whist.pre
    /\ wdb = whist.pre
    /\ ~wOpen
====
